---- MODULE Spec2Model ----
(***************************************************************************)
(* taskroot: role-scoped access policy and idempotent time-entry writes.   *)
(*                                                                         *)
(* The state is the relational store (staff, deliverables, time entries,   *)
(* tasks, ...) plus the last request/response pair.  Each action is one    *)
(* DRF handler: permission check, object lookup, object permission,        *)
(* serializer validation, perform_* and the storage constraints.           *)
(*                                                                         *)
(* Strings that the code trims or tests for emptiness are sequences of     *)
(* one-character strings.  Hours are hundredths (Decimal, 2 places).       *)
(* A payload is a function whose DOMAIN is the set of keys it carries.     *)
(* entry_date and note are stored verbatim like hours and are not carried. *)
(***************************************************************************)
EXTENDS Integers, Sequences, FiniteSets, TLC

VARIABLES staff, contracts, deliverables, assignments, statusUpdates, nextId,
          entries, nextEntryId, inflight, tasks, nextTaskId, writes, last

vars == <<staff, contracts, deliverables, assignments, statusUpdates, nextId,
          entries, nextEntryId, inflight, tasks, nextTaskId, writes, last>>

\* the tables behind each group of viewsets
accessVars == <<staff, contracts, deliverables, assignments, statusUpdates,
                nextId, writes>>

entryVars == <<entries, nextEntryId>>

taskVars == <<tasks, nextTaskId>>

\* ---------------------------------------------------------------- bounds
\* rows the time-entry table ever receives
MaxEntries == 2

\* create requests that have passed the lookup and not yet inserted
MaxInflight == 2

\* rows the task table ever receives
MaxTasks == 2

\* successful writes on the role-guarded tables
MaxWrites == 1

\* the calendar: dates are day numbers 1..MaxDay, day 1 a Monday
MaxDay == 15

\* ------------------------------------------------------------- constants
HTTP_200_OK == 200
HTTP_201_CREATED == 201
HTTP_204_NO_CONTENT == 204
HTTP_400_BAD_REQUEST == 400
HTTP_403_FORBIDDEN == 403
HTTP_404_NOT_FOUND == 404
HTTP_500_SERVER_ERROR == 500

\* Decimal("0.01") in hundredths
MinHours == 1

Users == {"u0", "u1", "u3", "u4"}
NoUser == "nouser"
\* None; ids start at 1
Null == 0
NoStaff == Null
NoRole == "none"
NoId == Null

\* permission-denied messages
MsgNone == "none"
MsgDefault == "You do not have permission to perform this action."
MsgOwnTimeEntry == "You can only modify your own time entries."
MsgNoProfile == "Authenticated user is not linked to a Staff profile."
MsgCreateTask == "Staff can only create tasks assigned to themselves or unassigned."
MsgEditTask == "Staff can only modify tasks assigned to themselves."
MsgReassign == "Staff cannot reassign tasks to other staff."

\* ------------------------------------------------------------- fixtures
\* conftest.py: staff_profile (linked to a user), other_staff_profile (no
\* user), manager_profile, admin_profile, and user_without_staff (u0).
StaffFixture ==
    (1 :> [role |-> "staff", user |-> "u1"]) @@
    (2 :> [role |-> "staff", user |-> NoUser]) @@
    (3 :> [role |-> "manager", user |-> "u3"]) @@
    (4 :> [role |-> "admin", user |-> "u4"])

DeliverableFixture ==
    1 :> [contract |-> 1, status |-> "planned", start_date |-> Null, due_date |-> Null,
          budget_hours |-> 0]

\* ----------------------------------------------------- request.user.staff
StaffOf(u) ==
    IF \E s \in DOMAIN staff : staff[s].user = u
    THEN CHOOSE s \in DOMAIN staff : staff[s].user = u
    ELSE NoStaff

get_staff_role(u) ==
    IF StaffOf(u) = NoStaff THEN NoRole ELSE staff[StaffOf(u)].role

\* ------------------------------------------------------------- payloads
Opt(k, vals) == {<<>>} \cup {k :> v : v \in vals}

Has(p, k) == k \in DOMAIN p

\* dict.get(k, default)
Get(p, k, default) == IF k \in DOMAIN p THEN p[k] ELSE default

Blank == <<>>

\* bool(str): a non-empty string is truthy
Truthy(s) == Len(s) > 0

RECURSIVE LStrip(_)
LStrip(s) == IF s /= <<>> /\ Head(s) = " " THEN LStrip(Tail(s)) ELSE s

RECURSIVE RStrip(_)
RStrip(s) ==
    IF s /= <<>> /\ s[Len(s)] = " " THEN RStrip(SubSeq(s, 1, Len(s) - 1)) ELSE s

\* CharField(trim_whitespace=True): str.strip()
Strip(s) == RStrip(LStrip(s))

\* the idempotency pair as sent: nothing, a full pair, one half only,
\* whitespace only, a padded source
ExternalKeyParts ==
    { <<>>,
      ("external_source" :> <<"a">>) @@ ("external_id" :> <<"x">>),
      ("external_source" :> <<"a">>) @@ ("external_id" :> <<>>),
      "external_id" :> <<"x">>,
      "external_source" :> <<" ">>,
      ("external_source" :> <<"a", " ">>) @@ ("external_id" :> <<"x">>) }

\* POST bodies: deliverable 1 exists; hours 0 is invalid; staff 2 is
\* somebody else for every requester
TimeEntryCreatePayloads ==
    {("deliverable" :> 1) @@ h @@ s @@ k :
        h \in {"hours" :> v : v \in {0, 1}},
        s \in Opt("staff", {2}),
        k \in ExternalKeyParts}

\* PATCH bodies
TimeEntryPatchPayloads ==
    { "hours" :> 2,
      ("external_source" :> <<"a">>) @@ ("external_id" :> <<"x">>) }

\* PUT bodies: with and without the required deliverable
TimeEntryPutPayloads ==
    { ("deliverable" :> 1) @@ ("hours" :> 2), "hours" :> 2 }

\* POST bodies that seed entries for the edit requests
TimeEntrySeedPayloads ==
    {("deliverable" :> 1) @@ ("hours" :> 1) @@ s : s \in Opt("staff", {2})}

\* concurrent clients: a role=staff requester and a manager
RaceUsers == {"u1", "u3"}

\* POST bodies of concurrent creates: the same pair, spelled with and
\* without padding, and another pair
RacePayloads ==
    {("deliverable" :> 1) @@ ("hours" :> 1) @@ ("staff" :> 2)
        @@ ("external_source" :> src) @@ ("external_id" :> <<"x">>) :
        src \in {<<"a">>, <<"a", " ">>, <<"b">>}}

\* PATCH bodies that move an entry onto a pair
RacePatchPayloads ==
    { ("external_source" :> <<"a">>) @@ ("external_id" :> <<"x">>) }

\* clients that write entries: a role=staff requester and a manager
WriteUsers == {"u1", "u3"}

\* POST bodies with hours below, at and above zero, and two with a pair
WriteCreatePayloads ==
    {("deliverable" :> 1) @@ ("staff" :> 2) @@ ("hours" :> h) :
        h \in {0 - 1, 0, MinHours}}
    \cup {("deliverable" :> 1) @@ ("staff" :> 2) @@ ("hours" :> h)
            @@ ("external_source" :> <<"a">>) @@ ("external_id" :> <<"x">>) :
            h \in {0, MinHours}}

\* PATCH bodies that blank one half of the pair, or zero the hours
WritePatchPayloads ==
    { "external_id" :> Blank, "external_source" :> Blank, "hours" :> 0 }

\* PUT bodies: hours of zero, and a blank external_id next to the
\* required fields
WritePutPayloads ==
    { ("deliverable" :> 1) @@ ("hours" :> 0),
      ("deliverable" :> 1) @@ ("hours" :> MinHours) @@ ("external_id" :> Blank) }

\* mutant: the unique constraint without its condition
UniqueExternalOk_Unconditional(rows, id, row) ==
    \A o \in DOMAIN rows \ {id} :
        ~(rows[o].external_source = row.external_source
          /\ rows[o].external_id = row.external_id)

\* Meta.constraints: UniqueConstraint(fields=[external_source, external_id],
\*                                    condition=Q(external_source__gt=""))
UniqueExternalOk(rows, id, row) ==
    Truthy(row.external_source) =>
        \A o \in DOMAIN rows \ {id} :
            ~(rows[o].external_source = row.external_source
              /\ rows[o].external_id = row.external_id)

\* staff = ForeignKey(Staff, on_delete=PROTECT) is NOT NULL
StaffNotNullOk(row) == row.staff /= Null

\* mutant: the lookup never finds the stored entry
FindExisting_NoDedup(external_source, external_id) == NoId

\* DeliverableTimeEntry.objects.filter(external_source=.., external_id=..).first()
\* (get_queryset is not used here; Meta has no ordering, so take the lowest id)
FindExisting(external_source, external_id) ==
    LET hits == {e \in DOMAIN entries :
                    /\ entries[e].external_source = external_source
                    /\ entries[e].external_id = external_id}
    IN IF hits = {} THEN NoId ELSE CHOOSE e \in hits : \A o \in hits : e <= o

\* ---------------------------------------- DeliverableTimeEntrySerializer
\* to_internal_value: the validated attrs of the fields the payload carries
TimeEntryAttrs(p) ==
    [k \in DOMAIN p |->
        IF k \in {"external_source", "external_id"} THEN Strip(p[k]) ELSE p[k]]

\* mutant: the hours field accepts any number
TimeEntryFieldErrors_AnyHours(p, partial) ==
    {k \in {"deliverable", "hours"} : ~partial /\ ~Has(p, k)}
    \cup {k \in {"deliverable"} : Has(p, k) /\ p[k] \notin DOMAIN deliverables}
    \cup {k \in {"staff"} : Has(p, k) /\ p[k] \notin DOMAIN staff}

\* field-level errors; required fields are checked unless partial
TimeEntryFieldErrors(p, partial) ==
    {k \in {"deliverable", "hours"} : ~partial /\ ~Has(p, k)}
    \cup {k \in {"deliverable"} : Has(p, k) /\ p[k] \notin DOMAIN deliverables}
    \cup {k \in {"staff"} : Has(p, k) /\ p[k] \notin DOMAIN staff}
    \cup {k \in {"hours"} : Has(p, k) /\ (p[k] < MinHours \/ p[k] <= 0)}

\* mutant: only a source without an id is rejected
TimeEntryValidate_SourceOnly(attrs) ==
    IF Truthy(Get(attrs, "external_source", Blank))
       /\ ~Truthy(Get(attrs, "external_id", Blank))
    THEN {"external_id"} ELSE {}

\* validate(attrs): the idempotency pair must be given together
TimeEntryValidate(attrs) ==
    LET external_source == Get(attrs, "external_source", Blank)
        external_id == Get(attrs, "external_id", Blank)
    IN IF Truthy(external_source) /\ ~Truthy(external_id) THEN {"external_id"}
       ELSE IF Truthy(external_id) /\ ~Truthy(external_source) THEN {"external_source"}
       ELSE {}

\* is_valid(): validate() runs only when every field passed
TimeEntryErrors(p, partial) ==
    IF TimeEntryFieldErrors(p, partial) /= {}
    THEN TimeEntryFieldErrors(p, partial)
    ELSE TimeEntryValidate(TimeEntryAttrs(p))

\* model defaults for the fields the serializer leaves out
TimeEntryDefaults ==
    [deliverable |-> Null, staff |-> Null, hours |-> 0,
     external_source |-> Blank, external_id |-> Blank]

\* serializer.save(**kwargs): attrs over the instance (or the defaults)
ApplyAttrs(row, attrs) ==
    [k \in DOMAIN row |-> IF k \in DOMAIN attrs THEN attrs[k] ELSE row[k]]

\* ------------------------------------------------------------ responses
Response(op, u, status, errors, detail, id, req) ==
    [op |-> op, user |-> u, status |-> status, errors |-> errors,
     detail |-> detail, id |-> id, req |-> req]

NoResponse == Response("init", NoUser, 0, {}, MsgNone, NoId, <<>>)

\* ---------------------------------------------------------- permissions
SAFE_METHODS == {"GET", "HEAD", "OPTIONS"}

\* IsAdmin.has_permission
IsAdmin(u) == get_staff_role(u) = "admin"

\* mutant: writes are for managers only
ReadOnlyForStaffOtherwiseManagerAdmin_ManagerOnly(u, method) ==
    \/ method \in SAFE_METHODS
    \/ get_staff_role(u) = "manager"

\* ReadOnlyForStaffOtherwiseManagerAdmin.has_permission
ReadOnlyForStaffOtherwiseManagerAdmin(u, method) ==
    \/ method \in SAFE_METHODS
    \/ get_staff_role(u) \in {"manager", "admin"}

\* CanCreateTimeEntryAsStaff.has_permission
CanCreateTimeEntryAsStaff(u) == TRUE

\* mutant: the ownership comparison is dropped
IsOwnTimeEntryOrPrivileged_NoOwner(u, method, obj) ==
    IF method \in {"GET", "HEAD", "OPTIONS"} THEN TRUE
    ELSE StaffOf(u) /= NoStaff

\* IsOwnTimeEntryOrPrivileged.has_object_permission
IsOwnTimeEntryOrPrivileged(u, method, obj) ==
    IF method \in {"GET", "HEAD", "OPTIONS"} THEN TRUE
    ELSE IF StaffOf(u) = NoStaff THEN FALSE
    ELSE IF get_staff_role(u) \in {"manager", "admin"} THEN TRUE
    ELSE obj.staff = StaffOf(u)

\* DeliverableTimeEntryViewSet.get_permissions
TimeEntryPermissionClass(u, action) ==
    IF get_staff_role(u) = "staff" /\ action = "create"
    THEN "CanCreateTimeEntryAsStaff"
    ELSE IF get_staff_role(u) = "staff"
            /\ action \in {"update", "partial_update", "destroy"}
    THEN "IsOwnTimeEntryOrPrivileged"
    ELSE "ReadOnlyForStaffOtherwiseManagerAdmin"

\* ---- request.data values: JSON null, number, string, boolean, array
JNull == [t |-> "null"]

JInt(n) == [t |-> "int", n |-> n]

\* a float, as its whole part and its first decimal
JFloat(whole, tenths) == [t |-> "float", whole |-> whole, tenths |-> tenths]

JStr(s) == [t |-> "str", s |-> s]

JBool(b) == [t |-> "bool", b |-> b]

JList == [t |-> "list"]

DigitChars == <<"0", "1", "2", "3", "4", "5", "6", "7", "8", "9">>

IsDigit(c) == \E i \in 1..Len(DigitChars) : DigitChars[i] = c

DigitValue(c) == (CHOOSE i \in 1..Len(DigitChars) : DigitChars[i] = c) - 1

RECURSIVE DigitsValue(_, _)
DigitsValue(s, acc) ==
    IF s = <<>> THEN acc
    ELSE DigitsValue(Tail(s), acc * Len(DigitChars) + DigitValue(Head(s)))

\* int(str) succeeds on optionally padded decimal digits
IsIntLiteral(s) ==
    Strip(s) /= <<>> /\ \A i \in 1..Len(Strip(s)) : IsDigit(Strip(s)[i])

\* int(x) does not raise TypeError / ValueError
CanInt(v) ==
    CASE v.t \in {"int", "float", "bool"} -> TRUE
      [] v.t = "str" -> IsIntLiteral(v.s)
      [] OTHER -> FALSE

\* int(x): floats truncate, True is 1
PyInt(v) ==
    CASE v.t = "int" -> v.n
      [] v.t = "float" -> v.whole
      [] v.t = "bool" -> IF v.b THEN 1 ELSE 0
      [] OTHER -> DigitsValue(Strip(v.s), 0)

\* x == "" and x == 0 in Python (0.0 == 0 and False == 0 hold)
EqEmptyStr(v) == v.t = "str" /\ v.s = <<>>

EqZero(v) ==
    CASE v.t = "int" -> v.n = 0
      [] v.t = "float" -> v.whole = 0 /\ v.tenths = 0
      [] v.t = "bool" -> ~v.b
      [] OTHER -> FALSE

\* mutant: any assignee is let through
CanCreateTaskAsStaff_Any(u, data) == TRUE

\* CanCreateTaskAsStaff.has_permission
CanCreateTaskAsStaff(u, data) ==
    IF ~Has(data, "assignee") THEN TRUE
    ELSE LET assignee_id == data["assignee"] IN
         IF assignee_id.t = "null" \/ EqEmptyStr(assignee_id) \/ EqZero(assignee_id)
         THEN TRUE
         ELSE IF CanInt(assignee_id) THEN PyInt(assignee_id) = StaffOf(u)
         ELSE FALSE

\* mutant: editing no longer looks at the assignee
CanEditTaskAsStaff_NoAssignee(u, method, obj) ==
    IF method \in {"GET", "HEAD", "OPTIONS"} THEN TRUE
    ELSE StaffOf(u) /= NoStaff

\* CanEditTaskAsStaff.has_object_permission
CanEditTaskAsStaff(u, method, obj) ==
    IF method \in {"GET", "HEAD", "OPTIONS"} THEN TRUE
    ELSE IF StaffOf(u) = NoStaff THEN FALSE
    ELSE obj.assignee = StaffOf(u)

\* TaskViewSet.get_permissions
TaskPermissionClass(u, action) ==
    IF get_staff_role(u) = "staff" /\ action = "create"
    THEN "CanCreateTaskAsStaff"
    ELSE IF get_staff_role(u) = "staff"
            /\ action \in {"update", "partial_update", "destroy"}
    THEN "CanEditTaskAsStaff"
    ELSE "ReadOnlyForStaffOtherwiseManagerAdmin"

\* HasStaffProfile.has_permission: raises PermissionDenied without a profile
HasStaffProfile(u) == StaffOf(u) /= NoStaff

\* mutant: StaffViewSet guarded like the other viewsets
ViewPermissionClass_NoAdminOnly(res, method) ==
    "ReadOnlyForStaffOtherwiseManagerAdmin"

\* class-level permission_classes, and StaffViewSet.get_permissions
ViewPermissionClass(res, method) ==
    IF res = "staff" /\ method \notin SAFE_METHODS
    THEN "IsAdmin"
    ELSE "ReadOnlyForStaffOtherwiseManagerAdmin"

\* APIView.check_permissions over the classes get_permissions returned
HasPermission(cls, u, method, data) ==
    CASE cls = "ReadOnlyForStaffOtherwiseManagerAdmin" ->
            ReadOnlyForStaffOtherwiseManagerAdmin(u, method)
      [] cls = "CanCreateTimeEntryAsStaff" -> CanCreateTimeEntryAsStaff(u)
      [] cls = "CanCreateTaskAsStaff" -> CanCreateTaskAsStaff(u, data)
      [] cls = "IsAdmin" -> IsAdmin(u)
      [] cls = "HasStaffProfile" -> HasStaffProfile(u)
      [] OTHER -> TRUE

\* the message attribute of the class that denied
PermissionMessage(cls) ==
    CASE cls = "IsOwnTimeEntryOrPrivileged" -> MsgOwnTimeEntry
      [] cls = "CanCreateTaskAsStaff" -> MsgCreateTask
      [] cls = "CanEditTaskAsStaff" -> MsgEditTask
      [] cls = "HasStaffProfile" -> MsgNoProfile
      [] OTHER -> MsgDefault

ActionMethod(action) ==
    CASE action = "create" -> "POST"
      [] action = "update" -> "PUT"
      [] action = "partial_update" -> "PATCH"
      [] action = "destroy" -> "DELETE"
      [] OTHER -> "GET"

\* ------------------------------------------- DeliverableTimeEntryViewSet
\* mutant: the payload's staff is kept
ForceStaff_Payload(u, attrs) == attrs

\* perform_create / perform_update: role=staff forces staff to the requester
ForceStaff(u, attrs) ==
    IF get_staff_role(u) = "staff" THEN ("staff" :> StaffOf(u)) @@ attrs ELSE attrs

\* mutant: the storage has no unique constraint on the pair
TimeEntryStorageOk_NoUnique(id, row) == StaffNotNullOk(row)

\* the storage accepts the row (NOT NULL and the unique constraint)
TimeEntryStorageOk(id, row) ==
    StaffNotNullOk(row) /\ UniqueExternalOk(entries, id, row)

Unchanged == UNCHANGED <<accessVars, entryVars, taskVars>>

\* create(), first half: the idempotency lookup on the raw request data
TimeEntryLookup(p) ==
    LET external_source == Get(p, "external_source", Blank)
        external_id == Get(p, "external_id", Blank)
    IN IF Truthy(external_source) /\ Truthy(external_id)
       THEN FindExisting(external_source, external_id)
       ELSE NoId

\* create(), second half: super().create() = is_valid, perform_create, INSERT
TimeEntrySuperCreate(u, p) ==
    LET errors == TimeEntryErrors(p, FALSE)
        row == ApplyAttrs(TimeEntryDefaults, ForceStaff(u, TimeEntryAttrs(p)))
    IN
    IF errors /= {} THEN
        /\ last' = Response("te_create", u, HTTP_400_BAD_REQUEST, errors, MsgNone, NoId, p)
        /\ Unchanged
    ELSE IF ~TimeEntryStorageOk(NoId, row) THEN
        /\ last' = Response("te_create", u, HTTP_500_SERVER_ERROR, {}, MsgNone, NoId, p)
        /\ Unchanged
    ELSE
        /\ nextEntryId <= MaxEntries
        /\ entries' = (nextEntryId :> row) @@ entries
        /\ nextEntryId' = nextEntryId + 1
        /\ last' = Response("te_create", u, HTTP_201_CREATED, {}, MsgNone, nextEntryId, p)
        /\ UNCHANGED <<accessVars, taskVars>>

\* create() served without another request in between
TimeEntryCreate(u, p) ==
    LET cls == TimeEntryPermissionClass(u, "create")
        existing == TimeEntryLookup(p)
    IN
    /\ UNCHANGED inflight
    /\ IF ~HasPermission(cls, u, "POST", p) THEN
            /\ last' = Response("te_create", u, HTTP_403_FORBIDDEN, {}, PermissionMessage(cls), NoId, p)
            /\ Unchanged
       ELSE IF existing /= NoId THEN
            /\ last' = Response("te_create", u, HTTP_200_OK, {}, MsgNone, existing, p)
            /\ Unchanged
       ELSE TimeEntrySuperCreate(u, p)

\* create() up to the lookup; a request that found nothing is in flight
TimeEntryCreateBegin(u, p) ==
    LET cls == TimeEntryPermissionClass(u, "create")
        existing == TimeEntryLookup(p)
    IN
    IF ~HasPermission(cls, u, "POST", p) THEN
        /\ last' = Response("te_create", u, HTTP_403_FORBIDDEN, {}, PermissionMessage(cls), NoId, p)
        /\ Unchanged
        /\ UNCHANGED inflight
    ELSE IF existing /= NoId THEN
        /\ last' = Response("te_create", u, HTTP_200_OK, {}, MsgNone, existing, p)
        /\ Unchanged
        /\ UNCHANGED inflight
    ELSE
        /\ Len(inflight) < MaxInflight
        /\ inflight' = Append(inflight, [user |-> u, req |-> p])
        /\ Unchanged
        /\ UNCHANGED last

\* an in-flight create runs super().create(), in any order
TimeEntryCreateFinish(i) ==
    /\ i \in 1..Len(inflight)
    /\ inflight' = SubSeq(inflight, 1, i - 1) \o SubSeq(inflight, i + 1, Len(inflight))
    /\ TimeEntrySuperCreate(inflight[i].user, inflight[i].req)

\* update() / partial_update(): get_object, validation, perform_update
TimeEntryUpdate(u, id, p, partial) ==
    /\ UNCHANGED inflight
    /\ LET action == IF partial THEN "partial_update" ELSE "update"
           op == IF partial THEN "te_partial_update" ELSE "te_update"
           cls == TimeEntryPermissionClass(u, action)
           errors == TimeEntryErrors(p, partial)
           row == ApplyAttrs(entries[id], ForceStaff(u, TimeEntryAttrs(p)))
       IN
       IF ~HasPermission(cls, u, ActionMethod(action), p) THEN
           /\ last' = Response(op, u, HTTP_403_FORBIDDEN, {}, PermissionMessage(cls), id, <<>>)
           /\ Unchanged
       ELSE IF id \notin DOMAIN entries THEN
           /\ last' = Response(op, u, HTTP_404_NOT_FOUND, {}, MsgNone, id, <<>>)
           /\ Unchanged
       ELSE IF cls = "IsOwnTimeEntryOrPrivileged"
               /\ ~IsOwnTimeEntryOrPrivileged(u, ActionMethod(action), entries[id]) THEN
           /\ last' = Response(op, u, HTTP_403_FORBIDDEN, {}, PermissionMessage(cls), id, <<>>)
           /\ Unchanged
       ELSE IF errors /= {} THEN
           /\ last' = Response(op, u, HTTP_400_BAD_REQUEST, errors, MsgNone, id, <<>>)
           /\ Unchanged
       ELSE IF ~TimeEntryStorageOk(id, row) THEN
           /\ last' = Response(op, u, HTTP_500_SERVER_ERROR, {}, MsgNone, id, <<>>)
           /\ Unchanged
       ELSE
           /\ entries' = [entries EXCEPT ![id] = row]
           /\ last' = Response(op, u, HTTP_200_OK, {}, MsgNone, id, <<>>)
           /\ UNCHANGED <<accessVars, taskVars, nextEntryId>>

\* destroy(): get_object, perform_destroy
TimeEntryDestroy(u, id) ==
    /\ UNCHANGED inflight
    /\ LET cls == TimeEntryPermissionClass(u, "destroy") IN
       IF ~HasPermission(cls, u, "DELETE", <<>>) THEN
           /\ last' = Response("te_destroy", u, HTTP_403_FORBIDDEN, {}, PermissionMessage(cls), id, <<>>)
           /\ Unchanged
       ELSE IF id \notin DOMAIN entries THEN
           /\ last' = Response("te_destroy", u, HTTP_404_NOT_FOUND, {}, MsgNone, id, <<>>)
           /\ Unchanged
       ELSE IF cls = "IsOwnTimeEntryOrPrivileged"
               /\ ~IsOwnTimeEntryOrPrivileged(u, "DELETE", entries[id]) THEN
           /\ last' = Response("te_destroy", u, HTTP_403_FORBIDDEN, {}, PermissionMessage(cls), id, <<>>)
           /\ Unchanged
       ELSE
           /\ entries' = [e \in DOMAIN entries \ {id} |-> entries[e]]
           /\ last' = Response("te_destroy", u, HTTP_204_NO_CONTENT, {}, MsgNone, id, <<>>)
           /\ UNCHANGED <<accessVars, taskVars, nextEntryId>>

\* ------------------------------------------------------------ TaskViewSet
\* title and budget_hours are stored verbatim like status and not carried
TaskAssigneeValues ==
    { JNull, JStr(<<>>), JInt(0), JInt(1), JInt(2), JInt(9),
      JStr(<<"1">>), JStr(<<"x">>), JFloat(1, 5), JBool(TRUE), JList }

\* POST bodies
TaskCreatePayloads ==
    {("deliverable" :> 1) @@ a : a \in Opt("assignee", TaskAssigneeValues)}

\* PATCH bodies
TaskPatchPayloads ==
    { "status" :> "done", "assignee" :> JNull, "assignee" :> JInt(1),
      "assignee" :> JInt(2) }

\* PUT bodies
TaskPutPayloads == { ("deliverable" :> 1) @@ ("status" :> "done") }

\* requesters with a profile: role staff, manager, admin
TaskUsers == {"u1", "u3", "u4"}

TaskStatusChoices == {"todo", "in_progress", "done", "blocked"}

\* PrimaryKeyRelatedField(queryset=Staff, allow_null=True): None for null
\* and "", the staff row whose pk is int(data), or no value (an error)
AssigneeLookup(v) ==
    IF v.t = "null" \/ EqEmptyStr(v) THEN {Null}
    ELSE IF v.t \in {"bool", "list"} \/ ~CanInt(v) THEN {}
    ELSE {PyInt(v)} \cap DOMAIN staff

TaskFieldErrors(p, partial) ==
    {k \in {"deliverable"} : ~partial /\ ~Has(p, k)}
    \cup {k \in {"deliverable"} : Has(p, k) /\ p[k] \notin DOMAIN deliverables}
    \cup {k \in {"assignee"} : Has(p, k) /\ AssigneeLookup(p[k]) = {}}
    \cup {k \in {"status"} : Has(p, k) /\ p[k] \notin TaskStatusChoices}
    \cup {k \in {"budget_hours"} : Has(p, k) /\ p[k] < 0}

\* serializer.validated_data
TaskAttrs(p) ==
    [k \in DOMAIN p |->
        IF k = "assignee" THEN CHOOSE a \in AssigneeLookup(p[k]) : TRUE ELSE p[k]]

TaskDefaults ==
    [deliverable |-> Null, assignee |-> Null, status |-> "todo", budget_hours |-> 0]

\* create(): CreateModelMixin.create with perform_create
TaskCreate(u, p) ==
    LET cls == TaskPermissionClass(u, "create")
        errors == TaskFieldErrors(p, FALSE)
    IN
    /\ UNCHANGED <<accessVars, entryVars, inflight>>
    /\ IF ~HasPermission(cls, u, "POST", p) THEN
            /\ last' = Response("task_create", u, HTTP_403_FORBIDDEN, {}, PermissionMessage(cls), NoId, p)
            /\ UNCHANGED taskVars
       ELSE IF errors /= {} THEN
            /\ last' = Response("task_create", u, HTTP_400_BAD_REQUEST, errors, MsgNone, NoId, p)
            /\ UNCHANGED taskVars
       ELSE
            /\ nextTaskId <= MaxTasks
            /\ tasks' = (nextTaskId :> ApplyAttrs(TaskDefaults, TaskAttrs(p))) @@ tasks
            /\ nextTaskId' = nextTaskId + 1
            /\ last' = Response("task_create", u, HTTP_201_CREATED, {}, MsgNone, nextTaskId, p)

\* perform_update: a role=staff requester names another staff member
ReassignsAway(u, attrs) ==
    /\ get_staff_role(u) = "staff"
    /\ Has(attrs, "assignee")
    /\ attrs["assignee"] /= Null
    /\ attrs["assignee"] /= StaffOf(u)

\* mutant: perform_update saves before it checks the reassignment
TaskUpdate_SaveThenCheck(u, id, p, partial) ==
    LET action == IF partial THEN "partial_update" ELSE "update"
        op == IF partial THEN "task_partial_update" ELSE "task_update"
        cls == TaskPermissionClass(u, action)
        errors == TaskFieldErrors(p, partial)
    IN
    /\ UNCHANGED <<accessVars, entryVars, inflight, nextTaskId>>
    /\ IF ~HasPermission(cls, u, ActionMethod(action), p) THEN
            /\ last' = Response(op, u, HTTP_403_FORBIDDEN, {}, PermissionMessage(cls), id, p)
            /\ UNCHANGED tasks
       ELSE IF id \notin DOMAIN tasks THEN
            /\ last' = Response(op, u, HTTP_404_NOT_FOUND, {}, MsgNone, id, p)
            /\ UNCHANGED tasks
       ELSE IF cls = "CanEditTaskAsStaff"
               /\ ~CanEditTaskAsStaff(u, ActionMethod(action), tasks[id]) THEN
            /\ last' = Response(op, u, HTTP_403_FORBIDDEN, {}, PermissionMessage(cls), id, p)
            /\ UNCHANGED tasks
       ELSE IF errors /= {} THEN
            /\ last' = Response(op, u, HTTP_400_BAD_REQUEST, errors, MsgNone, id, p)
            /\ UNCHANGED tasks
       ELSE IF ReassignsAway(u, TaskAttrs(p)) THEN
            /\ last' = Response(op, u, HTTP_403_FORBIDDEN, {}, MsgReassign, id, p)
            /\ tasks' = [tasks EXCEPT ![id] = ApplyAttrs(tasks[id], TaskAttrs(p))]
       ELSE
            /\ tasks' = [tasks EXCEPT ![id] = ApplyAttrs(tasks[id], TaskAttrs(p))]
            /\ last' = Response(op, u, HTTP_200_OK, {}, MsgNone, id, p)

\* update() / partial_update(): get_object, validation, perform_update
TaskUpdate(u, id, p, partial) ==
    LET action == IF partial THEN "partial_update" ELSE "update"
        op == IF partial THEN "task_partial_update" ELSE "task_update"
        cls == TaskPermissionClass(u, action)
        errors == TaskFieldErrors(p, partial)
    IN
    /\ UNCHANGED <<accessVars, entryVars, inflight, nextTaskId>>
    /\ IF ~HasPermission(cls, u, ActionMethod(action), p) THEN
            /\ last' = Response(op, u, HTTP_403_FORBIDDEN, {}, PermissionMessage(cls), id, p)
            /\ UNCHANGED tasks
       ELSE IF id \notin DOMAIN tasks THEN
            /\ last' = Response(op, u, HTTP_404_NOT_FOUND, {}, MsgNone, id, p)
            /\ UNCHANGED tasks
       ELSE IF cls = "CanEditTaskAsStaff"
               /\ ~CanEditTaskAsStaff(u, ActionMethod(action), tasks[id]) THEN
            /\ last' = Response(op, u, HTTP_403_FORBIDDEN, {}, PermissionMessage(cls), id, p)
            /\ UNCHANGED tasks
       ELSE IF errors /= {} THEN
            /\ last' = Response(op, u, HTTP_400_BAD_REQUEST, errors, MsgNone, id, p)
            /\ UNCHANGED tasks
       ELSE IF ReassignsAway(u, TaskAttrs(p)) THEN
            /\ last' = Response(op, u, HTTP_403_FORBIDDEN, {}, MsgReassign, id, p)
            /\ UNCHANGED tasks
       ELSE
            /\ tasks' = [tasks EXCEPT ![id] = ApplyAttrs(tasks[id], TaskAttrs(p))]
            /\ last' = Response(op, u, HTTP_200_OK, {}, MsgNone, id, p)

\* destroy(): get_object, perform_destroy
TaskDestroy(u, id) ==
    LET cls == TaskPermissionClass(u, "destroy") IN
    /\ UNCHANGED <<accessVars, entryVars, inflight, nextTaskId>>
    /\ IF ~HasPermission(cls, u, "DELETE", <<>>) THEN
            /\ last' = Response("task_destroy", u, HTTP_403_FORBIDDEN, {}, PermissionMessage(cls), id, <<>>)
            /\ UNCHANGED tasks
       ELSE IF id \notin DOMAIN tasks THEN
            /\ last' = Response("task_destroy", u, HTTP_404_NOT_FOUND, {}, MsgNone, id, <<>>)
            /\ UNCHANGED tasks
       ELSE IF cls = "CanEditTaskAsStaff"
               /\ ~CanEditTaskAsStaff(u, "DELETE", tasks[id]) THEN
            /\ last' = Response("task_destroy", u, HTTP_403_FORBIDDEN, {}, PermissionMessage(cls), id, <<>>)
            /\ UNCHANGED tasks
       ELSE
            /\ tasks' = [t \in DOMAIN tasks \ {id} |-> tasks[t]]
            /\ last' = Response("task_destroy", u, HTTP_204_NO_CONTENT, {}, MsgNone, id, <<>>)

\* ------------------------------------------------ role-guarded viewsets
\* StaffViewSet, ContractViewSet, DeliverableViewSet,
\* DeliverableAssignmentViewSet, DeliverableStatusUpdateViewSet: the handlers
\* are ModelViewSet's, the viewsets differ in permissions and serializer.
Resources == {"staff", "contracts", "deliverables", "assignments", "statusUpdates"}

Table(res) ==
    CASE res = "staff" -> staff
      [] res = "contracts" -> contracts
      [] res = "deliverables" -> deliverables
      [] res = "assignments" -> assignments
      [] OTHER -> statusUpdates

\* model defaults; a Staff row made through the API has no user
RowDefaults(res) ==
    CASE res = "staff" -> [role |-> "staff", user |-> NoUser]
      [] res = "contracts" ->
            [start_date |-> Null, end_date |-> Null, budget_hours |-> 0]
      [] res = "deliverables" ->
            [contract |-> Null, status |-> "planned",
             start_date |-> Null, due_date |-> Null, budget_hours |-> 0]
      [] res = "assignments" ->
            [deliverable |-> Null, staff |-> Null, budget_hours |-> 0,
             is_lead |-> FALSE]
      [] OTHER -> [deliverable |-> Null, period_end |-> Null, created_by |-> Null]

RequiredFields(res) ==
    CASE res = "contracts" -> {"start_date", "end_date"}
      [] res = "deliverables" -> {"contract"}
      [] res = "assignments" -> {"deliverable", "staff"}
      [] res = "statusUpdates" -> {"deliverable", "period_end"}
      [] OTHER -> {}

RoleChoices == {"staff", "manager", "admin"}

DeliverableStatusChoices == {"planned", "in_progress", "complete", "blocked"}

\* field-level validation: required, foreign keys, choices
ModelFieldErrors(res, p, partial) ==
    {k \in RequiredFields(res) : ~partial /\ ~Has(p, k)}
    \cup {k \in {"contract"} : Has(p, k) /\ p[k] \notin DOMAIN contracts}
    \cup {k \in {"deliverable"} : Has(p, k) /\ p[k] \notin DOMAIN deliverables}
    \cup {k \in {"staff", "created_by"} : Has(p, k) /\ p[k] \notin DOMAIN staff}
    \cup {k \in {"role"} : Has(p, k) /\ p[k] \notin RoleChoices}
    \cup {k \in {"status"} : Has(p, k) /\ p[k] \notin DeliverableStatusChoices}
    \cup {k \in {"budget_hours"} : Has(p, k) /\ p[k] < 0}

\* mutant: only the assignment serializer carries the validator
UniqueTogetherFields_AssignmentsOnly(res) ==
    CASE res = "assignments" -> {"deliverable", "staff"}
      [] OTHER -> {}

\* Meta.validators: the fields of the UniqueTogetherValidator
UniqueTogetherFields(res) ==
    CASE res = "assignments" -> {"deliverable", "staff"}
      [] res = "statusUpdates" -> {"deliverable", "period_end"}
      [] OTHER -> {}

\* mutant: no class-level validator
UniqueTogetherErrors_None(res, id, row) == {}

\* Meta.validators: UniqueTogetherValidator, on the merged row and with
\* the instance itself left out
UniqueTogetherErrors(res, id, row) ==
    IF /\ UniqueTogetherFields(res) /= {}
       /\ \E o \in DOMAIN Table(res) \ {id} :
             \A k \in UniqueTogetherFields(res) : Table(res)[o][k] = row[k]
    THEN {"non_field_errors"} ELSE {}

\* is_valid(): the class-level validators run only when every field passed
ModelErrors(res, id, row, p, partial) ==
    IF ModelFieldErrors(res, p, partial) /= {}
    THEN ModelFieldErrors(res, p, partial)
    ELSE UniqueTogetherErrors(res, id, ApplyAttrs(row, p))

\* Meta.constraints: UniqueConstraint(deliverable, staff) and
\* UniqueConstraint(deliverable, period_end)
UniqueConstraintOk(res, id, row) ==
    \A o \in DOMAIN Table(res) \ {id} :
        /\ res = "assignments"
           => ~(Table(res)[o].deliverable = row.deliverable
                /\ Table(res)[o].staff = row.staff)
        /\ res = "statusUpdates"
           => ~(Table(res)[o].deliverable = row.deliverable
                /\ Table(res)[o].period_end = row.period_end)

\* Contract.Meta.constraints: CheckConstraint(end_date >= start_date)
ContractDatesOk(res, row) == res = "contracts" => row.end_date >= row.start_date

\* Deliverable.Meta.constraints: CheckConstraint(due_date >= start_date, or
\* one of them null)
DeliverableDatesOk(res, row) ==
    res = "deliverables"
    => (row.due_date = Null \/ row.start_date = Null \/ row.due_date >= row.start_date)

\* the INSERT or UPDATE passes every constraint of the table
ModelStorageOk(res, id, row) ==
    /\ ContractDatesOk(res, row)
    /\ DeliverableDatesOk(res, row)
    /\ UniqueConstraintOk(res, id, row)

\* on_delete=PROTECT: Deliverable.contract, DeliverableTimeEntry.staff
Protected(res, id) ==
    \/ res = "contracts" /\ \E d \in DOMAIN deliverables : deliverables[d].contract = id
    \/ res = "staff" /\ \E e \in DOMAIN entries : entries[e].staff = id

\* table t without the rows in gone
Without(t, gone) == [o \in DOMAIN t \ gone |-> t[o]]

\* rows of t whose field k points at id
Referring(t, k, id) == {o \in DOMAIN t : t[o][k] = id}

\* mutant: the referring rows keep the deleted id
SetNull_Keep(t, k, id) == t

\* on_delete=SET_NULL
SetNull(t, k, id) ==
    [o \in DOMAIN t |-> IF t[o][k] = id THEN [t[o] EXCEPT ![k] = Null] ELSE t[o]]

\* instance.delete(): the row goes, CASCADE and SET_NULL follow
DeleteCascade(res, id) ==
    /\ staff' = IF res = "staff" THEN Without(staff, {id}) ELSE staff
    /\ contracts' = IF res = "contracts" THEN Without(contracts, {id}) ELSE contracts
    /\ deliverables' =
            IF res = "deliverables" THEN Without(deliverables, {id}) ELSE deliverables
    /\ assignments' =
            CASE res = "assignments" -> Without(assignments, {id})
              [] res = "deliverables" ->
                    Without(assignments, Referring(assignments, "deliverable", id))
              [] res = "staff" -> Without(assignments, Referring(assignments, "staff", id))
              [] OTHER -> assignments
    /\ statusUpdates' =
            CASE res = "statusUpdates" -> Without(statusUpdates, {id})
              [] res = "deliverables" ->
                    Without(statusUpdates, Referring(statusUpdates, "deliverable", id))
              [] res = "staff" -> SetNull(statusUpdates, "created_by", id)
              [] OTHER -> statusUpdates
    /\ tasks' =
            CASE res = "deliverables" -> Without(tasks, Referring(tasks, "deliverable", id))
              [] res = "staff" -> SetNull(tasks, "assignee", id)
              [] OTHER -> tasks
    /\ entries' =
            IF res = "deliverables"
            THEN Without(entries, Referring(entries, "deliverable", id))
            ELSE entries

\* serializer.save(): one table receives the row
SaveRow(res, id, row) ==
    /\ staff' = IF res = "staff" THEN (id :> row) @@ staff ELSE staff
    /\ contracts' = IF res = "contracts" THEN (id :> row) @@ contracts ELSE contracts
    /\ deliverables' =
            IF res = "deliverables" THEN (id :> row) @@ deliverables ELSE deliverables
    /\ assignments' =
            IF res = "assignments" THEN (id :> row) @@ assignments ELSE assignments
    /\ statusUpdates' =
            IF res = "statusUpdates" THEN (id :> row) @@ statusUpdates ELSE statusUpdates

Request(res, p) == [res |-> res, data |-> p]

AccessUnchanged == UNCHANGED <<accessVars, entryVars, taskVars, inflight>>

\* list()
ViewSetList(res, u) ==
    LET cls == ViewPermissionClass(res, "GET") IN
    /\ AccessUnchanged
    /\ IF ~HasPermission(cls, u, "GET", <<>>) THEN
            last' = Response("list", u, HTTP_403_FORBIDDEN, {}, PermissionMessage(cls), NoId, Request(res, <<>>))
       ELSE last' = Response("list", u, HTTP_200_OK, {}, MsgNone, NoId, Request(res, <<>>))

\* retrieve()
ViewSetRetrieve(res, u, id) ==
    LET cls == ViewPermissionClass(res, "GET") IN
    /\ AccessUnchanged
    /\ IF ~HasPermission(cls, u, "GET", <<>>) THEN
            last' = Response("retrieve", u, HTTP_403_FORBIDDEN, {}, PermissionMessage(cls), id, Request(res, <<>>))
       ELSE IF id \notin DOMAIN Table(res) THEN
            last' = Response("retrieve", u, HTTP_404_NOT_FOUND, {}, MsgNone, id, Request(res, <<>>))
       ELSE last' = Response("retrieve", u, HTTP_200_OK, {}, MsgNone, id, Request(res, <<>>))

\* create()
ViewSetCreate(res, u, p) ==
    LET cls == ViewPermissionClass(res, "POST")
        errors == ModelErrors(res, NoId, RowDefaults(res), p, FALSE)
        row == ApplyAttrs(RowDefaults(res), p)
    IN
    IF ~HasPermission(cls, u, "POST", p) THEN
        /\ last' = Response("create", u, HTTP_403_FORBIDDEN, {}, PermissionMessage(cls), NoId, Request(res, p))
        /\ AccessUnchanged
    ELSE IF errors /= {} THEN
        /\ last' = Response("create", u, HTTP_400_BAD_REQUEST, errors, MsgNone, NoId, Request(res, p))
        /\ AccessUnchanged
    ELSE IF ~ModelStorageOk(res, NoId, row) THEN
        /\ last' = Response("create", u, HTTP_500_SERVER_ERROR, {}, MsgNone, NoId, Request(res, p))
        /\ AccessUnchanged
    ELSE
        /\ writes < MaxWrites
        /\ writes' = writes + 1
        /\ SaveRow(res, nextId[res], row)
        /\ nextId' = [nextId EXCEPT ![res] = @ + 1]
        /\ last' = Response("create", u, HTTP_201_CREATED, {}, MsgNone, nextId[res], Request(res, p))
        /\ UNCHANGED <<entryVars, taskVars, inflight>>

\* partial_update()
ViewSetPartialUpdate(res, u, id, p) ==
    LET cls == ViewPermissionClass(res, "PATCH")
        errors == ModelErrors(res, id, Table(res)[id], p, TRUE)
        row == ApplyAttrs(Table(res)[id], p)
    IN
    IF ~HasPermission(cls, u, "PATCH", p) THEN
        /\ last' = Response("partial_update", u, HTTP_403_FORBIDDEN, {}, PermissionMessage(cls), id, Request(res, p))
        /\ AccessUnchanged
    ELSE IF id \notin DOMAIN Table(res) THEN
        /\ last' = Response("partial_update", u, HTTP_404_NOT_FOUND, {}, MsgNone, id, Request(res, p))
        /\ AccessUnchanged
    ELSE IF errors /= {} THEN
        /\ last' = Response("partial_update", u, HTTP_400_BAD_REQUEST, errors, MsgNone, id, Request(res, p))
        /\ AccessUnchanged
    ELSE IF ~ModelStorageOk(res, id, row) THEN
        /\ last' = Response("partial_update", u, HTTP_500_SERVER_ERROR, {}, MsgNone, id, Request(res, p))
        /\ AccessUnchanged
    ELSE
        /\ writes < MaxWrites
        /\ writes' = writes + 1
        /\ SaveRow(res, id, row)
        /\ last' = Response("partial_update", u, HTTP_200_OK, {}, MsgNone, id, Request(res, p))
        /\ UNCHANGED <<nextId, entryVars, taskVars, inflight>>

\* update(): get_object, validation on the whole body, perform_update
ViewSetUpdate(res, u, id, p) ==
    LET cls == ViewPermissionClass(res, "PUT")
        errors == ModelErrors(res, id, Table(res)[id], p, FALSE)
        row == ApplyAttrs(Table(res)[id], p)
    IN
    IF ~HasPermission(cls, u, "PUT", p) THEN
        /\ last' = Response("update", u, HTTP_403_FORBIDDEN, {}, PermissionMessage(cls), id, Request(res, p))
        /\ AccessUnchanged
    ELSE IF id \notin DOMAIN Table(res) THEN
        /\ last' = Response("update", u, HTTP_404_NOT_FOUND, {}, MsgNone, id, Request(res, p))
        /\ AccessUnchanged
    ELSE IF errors /= {} THEN
        /\ last' = Response("update", u, HTTP_400_BAD_REQUEST, errors, MsgNone, id, Request(res, p))
        /\ AccessUnchanged
    ELSE IF ~ModelStorageOk(res, id, row) THEN
        /\ last' = Response("update", u, HTTP_500_SERVER_ERROR, {}, MsgNone, id, Request(res, p))
        /\ AccessUnchanged
    ELSE
        /\ writes < MaxWrites
        /\ writes' = writes + 1
        /\ SaveRow(res, id, row)
        /\ last' = Response("update", u, HTTP_200_OK, {}, MsgNone, id, Request(res, p))
        /\ UNCHANGED <<nextId, entryVars, taskVars, inflight>>

\* destroy()
ViewSetDestroy(res, u, id) ==
    LET cls == ViewPermissionClass(res, "DELETE") IN
    IF ~HasPermission(cls, u, "DELETE", <<>>) THEN
        /\ last' = Response("destroy", u, HTTP_403_FORBIDDEN, {}, PermissionMessage(cls), id, Request(res, <<>>))
        /\ AccessUnchanged
    ELSE IF id \notin DOMAIN Table(res) THEN
        /\ last' = Response("destroy", u, HTTP_404_NOT_FOUND, {}, MsgNone, id, Request(res, <<>>))
        /\ AccessUnchanged
    ELSE IF Protected(res, id) THEN
        /\ last' = Response("destroy", u, HTTP_500_SERVER_ERROR, {}, MsgNone, id, Request(res, <<>>))
        /\ AccessUnchanged
    ELSE
        /\ writes < MaxWrites
        /\ writes' = writes + 1
        /\ DeleteCascade(res, id)
        /\ last' = Response("destroy", u, HTTP_204_NO_CONTENT, {}, MsgNone, id, Request(res, <<>>))
        /\ UNCHANGED <<nextId, nextEntryId, nextTaskId, inflight>>

\* POST bodies per resource
AccessCreatePayloads(res) ==
    CASE res = "staff" -> { <<>>, "role" :> "admin" }
      [] res = "contracts" ->
            { ("start_date" :> 1) @@ ("end_date" :> 2),
              ("start_date" :> 2) @@ ("end_date" :> 1) }
      [] res = "deliverables" -> { "contract" :> 1 }
      [] res = "assignments" -> { ("deliverable" :> 1) @@ ("staff" :> 1) }
      [] OTHER -> { ("deliverable" :> 1) @@ ("period_end" :> 1) }

\* PATCH bodies per resource
AccessPatchPayloads(res) ==
    CASE res = "staff" -> { "role" :> "manager" }
      [] res = "contracts" -> { "end_date" :> 3 }
      [] res = "deliverables" -> { "status" :> "complete" }
      [] res = "assignments" -> { "staff" :> 2 }
      [] OTHER -> { "period_end" :> 2 }

\* ids the requests aim at: the requester-linked staff rows of role staff
\* and admin, the first two rows of the other tables
AccessTargets(res) == IF res = "staff" THEN {1, 4} ELSE {1, 2}

\* ------------------------------------------------------ specifications
ContractFixture == 1 :> [start_date |-> 1, end_date |-> 2, budget_hours |-> 0]

NextIdFixture ==
    [res \in {"staff", "contracts", "deliverables", "assignments", "statusUpdates"} |->
        CASE res = "staff" -> 5
          [] res \in {"contracts", "deliverables"} -> 2
          [] OTHER -> 1]

EntryIds == 1..MaxEntries

Init ==
    /\ staff = StaffFixture
    /\ contracts = ContractFixture
    /\ deliverables = DeliverableFixture
    /\ assignments = <<>>
    /\ statusUpdates = <<>>
    /\ nextId = NextIdFixture
    /\ writes = 0
    /\ entries = <<>>
    /\ nextEntryId = 1
    /\ inflight = <<>>
    /\ tasks = <<>>
    /\ nextTaskId = 1
    /\ last = NoResponse

\* time-entry creates, one request at a time, with deletes in between
Next ==
    \/ \E u \in Users, p \in TimeEntryCreatePayloads : TimeEntryCreate(u, p)
    \/ \E u \in Users, id \in EntryIds : TimeEntryDestroy(u, id)

Spec == Init /\ [][Next]_vars

\* time-entry edits on entries of several owners
NextEdit ==
    \/ \E u \in Users, p \in TimeEntrySeedPayloads : TimeEntryCreate(u, p)
    \/ \E u \in Users, id \in EntryIds, p \in TimeEntryPatchPayloads :
            TimeEntryUpdate(u, id, p, TRUE)
    \/ \E u \in Users, id \in EntryIds, p \in TimeEntryPutPayloads :
            TimeEntryUpdate(u, id, p, FALSE)
    \/ \E u \in Users, id \in EntryIds : TimeEntryDestroy(u, id)

SpecEdit == Init /\ [][NextEdit]_vars

\* time-entry creates and updates served concurrently: a create may be
\* overtaken between its lookup and its insert
NextRace ==
    \/ \E u \in RaceUsers, p \in RacePayloads : TimeEntryCreateBegin(u, p)
    \/ \E i \in 1..MaxInflight : TimeEntryCreateFinish(i)
    \/ \E u \in RaceUsers, id \in EntryIds, p \in RacePatchPayloads :
            TimeEntryUpdate(u, id, p, TRUE)

SpecRace == Init /\ [][NextRace]_vars

TaskIds == 1..MaxTasks

\* task writes by every kind of requester
NextTask ==
    \/ \E u \in TaskUsers, p \in TaskCreatePayloads : TaskCreate(u, p)
    \/ \E u \in TaskUsers, id \in TaskIds, p \in TaskPatchPayloads :
            TaskUpdate(u, id, p, TRUE)
    \/ \E u \in TaskUsers, id \in TaskIds, p \in TaskPutPayloads :
            TaskUpdate(u, id, p, FALSE)
    \/ \E u \in TaskUsers, id \in TaskIds : TaskDestroy(u, id)

SpecTask == Init /\ [][NextTask]_vars

\* reads and writes on the role-guarded resources by every kind of user
NextAccess ==
    \/ \E res \in Resources, u \in Users : ViewSetList(res, u)
    \/ \E res \in Resources, u \in Users : ViewSetRetrieve(res, u, 1)
    \/ \E res \in Resources, u \in Users :
            \E p \in AccessCreatePayloads(res) : ViewSetCreate(res, u, p)
    \/ \E res \in Resources, u \in Users :
            \E id \in AccessTargets(res), p \in AccessPatchPayloads(res) :
                ViewSetPartialUpdate(res, u, id, p)
    \/ \E res \in Resources, u \in Users :
            \E id \in AccessTargets(res) : ViewSetDestroy(res, u, id)

SpecAccess == Init /\ [][NextAccess]_vars

\* time-entry creates and full or partial updates, one request at a time
NextWrite ==
    \/ \E u \in WriteUsers, p \in WriteCreatePayloads : TimeEntryCreate(u, p)
    \/ \E u \in WriteUsers, id \in EntryIds, p \in WritePatchPayloads :
            TimeEntryUpdate(u, id, p, TRUE)
    \/ \E u \in WriteUsers, id \in EntryIds, p \in WritePutPayloads :
            TimeEntryUpdate(u, id, p, FALSE)

SpecWrite == Init /\ [][NextWrite]_vars

\* the two tables that carry a pair constraint
UniqueResources == {"assignments", "statusUpdates"}

\* a role=staff requester and a manager
UniqueUsers == {"u1", "u3"}

\* POST and PUT bodies: the stored pair and a free one
UniqueCreatePayloads(res) ==
    IF res = "assignments"
    THEN {("deliverable" :> 1) @@ ("staff" :> s) : s \in {1, 2}}
         \cup {("deliverable" :> 1) @@ ("staff" :> 2) @@ ("is_lead" :> TRUE)}
    ELSE {("deliverable" :> 1) @@ ("period_end" :> d) : d \in {1, 2}}

\* PATCH bodies that move a row onto the stored pair or onto a free one
UniquePatchPayloads(res) ==
    IF res = "assignments"
    THEN {"staff" :> s : s \in {1, 2}} \cup {"is_lead" :> b : b \in BOOLEAN}
    ELSE {"period_end" :> d : d \in {1, 2}}

\* one assignment and one status update of the fixture deliverable exist
AssignmentFixture ==
    1 :> [deliverable |-> 1, staff |-> 1, budget_hours |-> 0, is_lead |-> FALSE]

StatusUpdateFixture == 1 :> [deliverable |-> 1, period_end |-> 1, created_by |-> Null]

InitUnique ==
    /\ staff = StaffFixture
    /\ contracts = ContractFixture
    /\ deliverables = DeliverableFixture
    /\ assignments = AssignmentFixture
    /\ statusUpdates = StatusUpdateFixture
    /\ nextId = [NextIdFixture EXCEPT !["assignments"] = 2, !["statusUpdates"] = 2]
    /\ writes = 0
    /\ entries = <<>>
    /\ nextEntryId = 1
    /\ inflight = <<>>
    /\ tasks = <<>>
    /\ nextTaskId = 1
    /\ last = NoResponse

\* writes on assignments and status updates
NextUnique ==
    \/ \E res \in UniqueResources, u \in UniqueUsers :
            \E p \in UniqueCreatePayloads(res) : ViewSetCreate(res, u, p)
    \/ \E res \in UniqueResources, u \in UniqueUsers :
            \E id \in AccessTargets(res), p \in UniquePatchPayloads(res) :
                ViewSetPartialUpdate(res, u, id, p)
    \/ \E res \in UniqueResources, u \in UniqueUsers :
            \E id \in AccessTargets(res), p \in UniqueCreatePayloads(res) :
                ViewSetUpdate(res, u, id, p)
    \/ \E res \in UniqueResources, u \in UniqueUsers :
            \E id \in AccessTargets(res) : ViewSetDestroy(res, u, id)

SpecUnique == InitUnique /\ [][NextUnique]_vars

\* ---------------------------------------------------------------- rollups
\* Sum(k) over the rows ids of table t
RECURSIVE SumField(_, _, _)
SumField(t, ids, k) ==
    IF ids = {} THEN 0
    ELSE LET i == CHOOSE x \in ids : TRUE
         IN t[i][k] + SumField(t, ids \ {i}, k)

\* queryset.aggregate(total=Sum(k))["total"]: None over no rows
Aggregate(t, ids, k) == IF ids = {} THEN Null ELSE SumField(t, ids, k)

\* result or Decimal("0")
OrZero(result) == IF result = Null THEN 0 ELSE result

\* Deliverable.get_assigned_budget_hours: self.tasks.aggregate(Sum("budget_hours"))
Deliverable_get_assigned_budget_hours(d) ==
    OrZero(Aggregate(tasks, Referring(tasks, "deliverable", d), "budget_hours"))

\* Deliverable.get_spent_hours: self.time_entries.aggregate(Sum("hours"))
Deliverable_get_spent_hours(d) ==
    OrZero(Aggregate(entries, Referring(entries, "deliverable", d), "hours"))

\* Deliverable.get_remaining_budget_hours: budget - assigned budget hours
Deliverable_get_remaining_budget_hours(d) ==
    deliverables[d].budget_hours - Deliverable_get_assigned_budget_hours(d)

\* Deliverable.get_unspent_budget_hours: budget - spent hours
Deliverable_get_unspent_budget_hours(d) ==
    deliverables[d].budget_hours - Deliverable_get_spent_hours(d)

\* Deliverable.is_missing_budget: self.budget_hours == 0 and self.tasks.exists()
Deliverable_is_missing_budget(d) ==
    /\ deliverables[d].budget_hours = 0
    /\ Referring(tasks, "deliverable", d) /= {}

\* mutant: true when an assignment that is not the lead exists
Deliverable_is_missing_lead_OtherExists(d) ==
    \E a \in Referring(assignments, "deliverable", d) : ~assignments[a].is_lead

\* Deliverable.is_missing_lead: not self.assignments.filter(is_lead=True).exists()
Deliverable_is_missing_lead(d) ==
    ~(\E a \in Referring(assignments, "deliverable", d) : assignments[a].is_lead)

\* mutant: assigned minus spent
Deliverable_get_variance_hours_Reversed(d) ==
    Deliverable_get_assigned_budget_hours(d) - Deliverable_get_spent_hours(d)

\* Deliverable.get_variance_hours
Deliverable_get_variance_hours(d) ==
    Deliverable_get_spent_hours(d) - Deliverable_get_assigned_budget_hours(d)

\* the loop of Contract.get_assigned_budget_hours over self.deliverables.all()
RECURSIVE TotalAssigned(_)
TotalAssigned(ds) ==
    IF ds = {} THEN 0
    ELSE LET d == CHOOSE x \in ds : TRUE
         IN Deliverable_get_assigned_budget_hours(d) + TotalAssigned(ds \ {d})

\* the loop of Contract.get_spent_hours over self.deliverables.all()
RECURSIVE TotalSpent(_)
TotalSpent(ds) ==
    IF ds = {} THEN 0
    ELSE LET d == CHOOSE x \in ds : TRUE
         IN Deliverable_get_spent_hours(d) + TotalSpent(ds \ {d})

\* Contract.get_assigned_budget_hours
Contract_get_assigned_budget_hours(c) ==
    TotalAssigned(Referring(deliverables, "contract", c))

\* Contract.get_spent_hours
Contract_get_spent_hours(c) ==
    TotalSpent(Referring(deliverables, "contract", c))

\* Contract.is_over_budget
Contract_is_over_budget(c) ==
    Contract_get_spent_hours(c) > contracts[c].budget_hours

\* Contract.get_remaining_budget_hours: budget - spent hours
Contract_get_remaining_budget_hours(c) ==
    contracts[c].budget_hours - Contract_get_spent_hours(c)

\* Contract.get_unspent_budget_hours: alias of get_remaining_budget_hours
Contract_get_unspent_budget_hours(c) == Contract_get_remaining_budget_hours(c)

\* Contract.get_unassigned_budget_hours: budget - assigned budget hours
Contract_get_unassigned_budget_hours(c) ==
    contracts[c].budget_hours - Contract_get_assigned_budget_hours(c)

\* mutant: spent is compared with the contract's own budget
Contract_is_over_expected_OwnBudget(c) ==
    Contract_get_spent_hours(c) > contracts[c].budget_hours

\* Contract.is_over_expected
Contract_is_over_expected(c) ==
    Contract_get_spent_hours(c) > Contract_get_assigned_budget_hours(c)

\* a manager edits the children of two deliverables of one contract
RollupUser == "u3"

RollupEntryPayloads ==
    { ("deliverable" :> 1) @@ ("staff" :> 2) @@ ("hours" :> 1),
      ("deliverable" :> 2) @@ ("staff" :> 2) @@ ("hours" :> 2) }

RollupEntryPatches == { "hours" :> 3 }

RollupTaskPayloads ==
    { ("deliverable" :> 1) @@ ("budget_hours" :> 2),
      ("deliverable" :> 2) @@ ("budget_hours" :> 1) }

RollupAssignmentPayloads ==
    { ("deliverable" :> 1) @@ ("staff" :> 1) @@ ("budget_hours" :> 3) }

RollupContractPatches == { "budget_hours" :> 1 }

\* a second contract without deliverables, and two deliverables of the
\* first contract
RollupContracts ==
    ContractFixture @@ (2 :> [start_date |-> 1, end_date |-> 2, budget_hours |-> 0])

RollupDeliverables ==
    DeliverableFixture
    @@ (2 :> [contract |-> 1, status |-> "planned", start_date |-> Null, due_date |-> Null,
              budget_hours |-> 4])

InitRollup ==
    /\ staff = StaffFixture
    /\ contracts = RollupContracts
    /\ deliverables = RollupDeliverables
    /\ assignments = <<>>
    /\ statusUpdates = <<>>
    /\ nextId = [NextIdFixture EXCEPT !["contracts"] = 3, !["deliverables"] = 3]
    /\ writes = 0
    /\ entries = <<>>
    /\ nextEntryId = 1
    /\ inflight = <<>>
    /\ tasks = <<>>
    /\ nextTaskId = 1
    /\ last = NoResponse

\* creates, updates and deletes of the rows the rollups read
NextRollup ==
    \/ \E p \in RollupEntryPayloads : TimeEntryCreate(RollupUser, p)
    \/ \E p \in RollupEntryPatches : TimeEntryUpdate(RollupUser, 1, p, TRUE)
    \/ \E id \in EntryIds : TimeEntryDestroy(RollupUser, id)
    \/ \E p \in RollupTaskPayloads : TaskCreate(RollupUser, p)
    \/ TaskDestroy(RollupUser, 1)
    \/ \E p \in RollupAssignmentPayloads : ViewSetCreate("assignments", RollupUser, p)
    \/ \E p \in RollupContractPatches :
            ViewSetPartialUpdate("contracts", RollupUser, 1, p)
    \/ \E d \in {1, 2} : ViewSetDestroy("deliverables", RollupUser, d)

SpecRollup == InitRollup /\ [][NextRollup]_vars

\* ------------------------------------------------------- weeks and buckets
Days == 1..MaxDay

Max(a, b) == IF a >= b THEN a ELSE b

\* mutant: the first argument, whatever the second
Min_First(a, b) == a

Min(a, b) == IF a <= b THEN a ELSE b

\* math.ceil(days / 7)
Ceil7(days) == 0 - ((0 - days) \div 7)

\* mutant: integer division without the ceiling
WeeksOf_Floor(start, end) == Max(1, (end - start + 1) \div 7)

\* days = (end - start).days + 1; max(1, ceil(days / 7))
WeeksOf(start, end) == Max(1, Ceil7(end - start + 1))

\* Contract.get_planned_weeks
Contract_get_planned_weeks(c) ==
    WeeksOf(contracts[c].start_date, contracts[c].end_date)

\* Contract.get_elapsed_weeks, with today = date.today()
Contract_get_elapsed_weeks(c, today) ==
    LET actual_end == Min(today, contracts[c].end_date)
    IN IF today < contracts[c].start_date THEN 1
       ELSE WeeksOf(contracts[c].start_date, actual_end)

\* a or b on optional dates
DateOr(a, b) == IF a /= Null THEN a ELSE b

\* start = self.start_date or self.contract.start_date
DeliverableStart(d) ==
    DateOr(deliverables[d].start_date, contracts[deliverables[d].contract].start_date)

\* end = self.due_date or self.contract.end_date
DeliverableEnd(d) ==
    DateOr(deliverables[d].due_date, contracts[deliverables[d].contract].end_date)

\* Deliverable.get_planned_weeks
Deliverable_get_planned_weeks(d) == WeeksOf(DeliverableStart(d), DeliverableEnd(d))

\* Deliverable.get_elapsed_weeks, with today = date.today()
Deliverable_get_elapsed_weeks(d, today) ==
    LET actual_end == Min(today, DeliverableEnd(d))
    IN IF today < DeliverableStart(d) THEN 1
       ELSE WeeksOf(DeliverableStart(d), actual_end)

\* date.weekday(): 0 = Monday .. 6 = Sunday
Weekday(d) == (d - 1) % 7

\* get_week_ending_date
get_week_ending_date(d) == d + ((6 - Weekday(d)) % 7)

\* the while loop of generate_weekly_buckets
RECURSIVE BucketLoop(_, _, _)
BucketLoop(buckets, current, end_date) ==
    IF current <= end_date
    THEN BucketLoop(Append(buckets, current), current + 7, end_date)
    ELSE buckets

\* mutant: no fallback bucket
generate_weekly_buckets_NoFallback(start_date, end_date) ==
    BucketLoop(<<>>, get_week_ending_date(start_date), end_date)

\* generate_weekly_buckets
generate_weekly_buckets(start_date, end_date) ==
    LET buckets == BucketLoop(<<>>, get_week_ending_date(start_date), end_date)
    IN IF buckets = <<>> THEN <<get_week_ending_date(start_date)>> ELSE buckets

\* retrieve() of a contract or a deliverable: the body carries the week
\* counts, computed with the clock value read by the handler
RetrieveWeeks(res, u, id, today) ==
    LET cls == ViewPermissionClass(res, "GET")
        body == IF res = "contracts"
                THEN ("today" :> today)
                     @@ ("planned_weeks" :> Contract_get_planned_weeks(id))
                     @@ ("elapsed_weeks" :> Contract_get_elapsed_weeks(id, today))
                ELSE ("today" :> today)
                     @@ ("planned_weeks" :> Deliverable_get_planned_weeks(id))
                     @@ ("elapsed_weeks" :> Deliverable_get_elapsed_weeks(id, today))
    IN
    /\ AccessUnchanged
    /\ IF ~HasPermission(cls, u, "GET", <<>>) THEN
            last' = Response("retrieve", u, HTTP_403_FORBIDDEN, {}, PermissionMessage(cls), id, Request(res, <<>>))
       ELSE IF id \notin DOMAIN Table(res) THEN
            last' = Response("retrieve", u, HTTP_404_NOT_FOUND, {}, MsgNone, id, Request(res, <<>>))
       ELSE last' = Response("retrieve", u, HTTP_200_OK, {}, MsgNone, id, Request(res, body))

\* burn: entry_date__gte=bucket_end - timedelta(days=6), entry_date__lte=bucket_end
BucketWindow(bucket_end) == (bucket_end - 6)..bucket_end

\* ContractReportViewSet.burn: the body carries the bucket end dates
ContractBurn(u, id) ==
    LET cls == "ReadOnlyForStaffOtherwiseManagerAdmin"
        buckets == generate_weekly_buckets(contracts[id].start_date, contracts[id].end_date)
    IN
    /\ AccessUnchanged
    /\ IF ~HasPermission(cls, u, "GET", <<>>) THEN
            last' = Response("burn", u, HTTP_403_FORBIDDEN, {}, PermissionMessage(cls), id, Request("contracts", <<>>))
       ELSE IF id \notin DOMAIN contracts THEN
            last' = Response("burn", u, HTTP_404_NOT_FOUND, {}, MsgNone, id, Request("contracts", <<>>))
       ELSE last' = Response("burn", u, HTTP_200_OK, {}, MsgNone, id,
                             Request("contracts", "buckets" :> buckets))

\* own dates of the deliverable: none, early or late
DeliverableStartDates == {Null, 3, 9}

DeliverableDueDates == {Null, 9, MaxDay}

\* contracts start on a Monday, a Tuesday, a Sunday or a Monday a week on
ContractStartDates == {1, 2, 7, 8}

\* a manager reads; the second id names no row
DateUser == "u3"

\* one contract and one deliverable with any admissible dates
InitDates ==
    /\ staff = StaffFixture
    /\ \E s \in ContractStartDates, e \in Days :
          /\ e >= s
          /\ contracts = 1 :> [start_date |-> s, end_date |-> e, budget_hours |-> 0]
    /\ \E s \in DeliverableStartDates, e \in DeliverableDueDates :
          /\ DeliverableDatesOk("deliverables", [start_date |-> s, due_date |-> e])
          /\ deliverables =
                1 :> [contract |-> 1, status |-> "planned", start_date |-> s, due_date |-> e,
                      budget_hours |-> 0]
    /\ assignments = <<>>
    /\ statusUpdates = <<>>
    /\ nextId = NextIdFixture
    /\ writes = 0
    /\ entries = <<>>
    /\ nextEntryId = 1
    /\ inflight = <<>>
    /\ tasks = <<>>
    /\ nextTaskId = 1
    /\ last = NoResponse

\* reads of the week counts on any day, and burn reports
NextDates ==
    \/ \E res \in {"contracts", "deliverables"}, id \in {1, 2}, today \in 1..(MaxDay + 1) :
            RetrieveWeeks(res, DateUser, id, today)
    \/ \E id \in {1, 2} : ContractBurn(DateUser, id)

SpecDates == InitDates /\ [][NextDates]_vars

\* ---------------------------------------------------- deletes and parents
CascadeUser == "u4"

\* a row of every child table hangs on deliverable 1; staff 2 is the
\* assignee, staff 1 has logged time
CascadeTasks ==
    1 :> [deliverable |-> 1, assignee |-> 2, status |-> "todo", budget_hours |-> 0]

CascadeEntries ==
    1 :> [deliverable |-> 1, staff |-> 1, hours |-> MinHours,
          external_source |-> Blank, external_id |-> Blank]

CascadeAssignments ==
    1 :> [deliverable |-> 1, staff |-> 2, budget_hours |-> 0, is_lead |-> FALSE]

CascadeStatusUpdates == 1 :> [deliverable |-> 1, period_end |-> 1, created_by |-> 2]

CascadeResources == {"contracts", "deliverables", "staff", "assignments"}

CascadeCreatePayloads(res) ==
    CASE res = "deliverables" -> {"contract" :> c : c \in {1, 2}}
      [] res = "assignments" -> {("deliverable" :> 2) @@ ("staff" :> 2)}
      [] OTHER -> {}

CascadeTaskPayloads ==
    {("deliverable" :> d) @@ ("assignee" :> JInt(2)) : d \in {1, 2}}

CascadeEntryPayloads ==
    {("deliverable" :> d) @@ ("staff" :> 2) @@ ("hours" :> MinHours) : d \in {1, 2}}

InitCascade ==
    /\ staff = StaffFixture
    /\ contracts = RollupContracts
    /\ deliverables = RollupDeliverables
    /\ assignments = CascadeAssignments
    /\ statusUpdates = CascadeStatusUpdates
    /\ nextId = [NextIdFixture EXCEPT !["contracts"] = 3, !["deliverables"] = 3,
                                      !["assignments"] = 2, !["statusUpdates"] = 2]
    /\ writes = 0
    /\ entries = CascadeEntries
    /\ nextEntryId = 2
    /\ inflight = <<>>
    /\ tasks = CascadeTasks
    /\ nextTaskId = 2
    /\ last = NoResponse

\* deletes of parents and children, and creates that name a parent
NextCascade ==
    \/ \E res \in CascadeResources, id \in {1, 2} : ViewSetDestroy(res, CascadeUser, id)
    \/ \E res \in CascadeResources :
            \E p \in CascadeCreatePayloads(res) : ViewSetCreate(res, CascadeUser, p)
    \/ \E p \in CascadeTaskPayloads : TaskCreate(CascadeUser, p)
    \/ \E p \in CascadeEntryPayloads : TimeEntryCreate(CascadeUser, p)
    \/ \E id \in EntryIds : TimeEntryDestroy(CascadeUser, id)

SpecCascade == InitCascade /\ [][NextCascade]_vars

\* ------------------------------------------------------ rejected requests
\* a user without profile, a role=staff requester and a manager
FrameUsers == {"u0", "u1", "u3"}

\* POST /tasks/: for oneself, for somebody else, for a missing deliverable
FrameTaskCreates ==
    { ("deliverable" :> 1) @@ ("assignee" :> JInt(1)),
      ("deliverable" :> 1) @@ ("assignee" :> JInt(2)),
      "deliverable" :> 9 }

\* PATCH /tasks/{id}/: a reassignment, a valid and an invalid status
FrameTaskPatches ==
    { "assignee" :> JInt(2), "status" :> "done", "status" :> "bogus" }

\* POST /time-entries/: valid, hours 0, half an idempotency pair
FrameEntryCreates ==
    { ("deliverable" :> 1) @@ ("hours" :> MinHours),
      ("deliverable" :> 1) @@ ("hours" :> 0),
      ("deliverable" :> 1) @@ ("hours" :> MinHours) @@ ("external_source" :> <<"a">>) }

\* PATCH /time-entries/{id}/
FrameEntryPatches == { "hours" :> 0 }

FrameContractCreates == { ("start_date" :> 1) @@ ("end_date" :> 2) }

\* writes by every kind of requester, accepted and rejected
NextFrame ==
    \/ \E u \in FrameUsers, p \in FrameTaskCreates : TaskCreate(u, p)
    \/ \E u \in FrameUsers \ {"u0"}, p \in FrameTaskPatches : TaskUpdate(u, 1, p, TRUE)
    \/ TaskDestroy("u1", 1)
    \/ \E p \in FrameEntryCreates : TimeEntryCreate("u1", p)
    \/ \E u \in FrameUsers \ {"u3"}, p \in FrameEntryPatches :
            TimeEntryUpdate(u, 1, p, TRUE)
    \/ \E p \in FrameContractCreates : ViewSetCreate("contracts", "u1", p)
    \/ ViewSetDestroy("deliverables", "u1", 1)

SpecFrame == Init /\ [][NextFrame]_vars

\* ------------------------------------------------- the access decision
ViewActions == {"list", "retrieve", "create", "update", "partial_update", "destroy"}

\* TaskViewSet: check_permissions, check_object_permissions on a stored
\* target, and the PermissionDenied of perform_update
TaskAuthorized(u, action, id, p) ==
    LET cls == TaskPermissionClass(u, action)
        method == ActionMethod(action)
    IN
    /\ HasPermission(cls, u, method, p)
    /\ (/\ action \in {"update", "partial_update", "destroy"}
        /\ id \in DOMAIN tasks
        /\ cls = "CanEditTaskAsStaff")
            => CanEditTaskAsStaff(u, method, tasks[id])
    /\ (/\ action \in {"update", "partial_update"}
        /\ id \in DOMAIN tasks
        /\ TaskFieldErrors(p, action = "partial_update") = {})
            => ~ReassignsAway(u, TaskAttrs(p))

\* DeliverableTimeEntryViewSet: check_permissions and the object permission
TimeEntryAuthorized(u, action, id, p) ==
    LET cls == TimeEntryPermissionClass(u, action)
        method == ActionMethod(action)
    IN
    /\ HasPermission(cls, u, method, p)
    /\ (/\ action \in {"update", "partial_update", "destroy"}
        /\ id \in DOMAIN entries
        /\ cls = "IsOwnTimeEntryOrPrivileged")
            => IsOwnTimeEntryOrPrivileged(u, method, entries[id])

\* the viewsets guarded by their permission class alone
ViewSetAuthorized(u, res, action) ==
    HasPermission(ViewPermissionClass(res, ActionMethod(action)), u,
                  ActionMethod(action), <<>>)

Authorized(u, res, action, id, p) ==
    CASE res = "tasks" -> TaskAuthorized(u, action, id, p)
      [] res = "entries" -> TimeEntryAuthorized(u, action, id, p)
      [] OTHER -> ViewSetAuthorized(u, res, action)

\* ------------------------------------------- rollup reads next to writes
\* mutant: one aggregate over the entries of all deliverables of the contract
DeliverableReadValue_WholeContract(d) ==
    Contract_get_spent_hours(deliverables[d].contract)

\* the loop body of Contract.get_spent_hours: one aggregate query for one
\* deliverable, answered from the rows stored at that moment
DeliverableReadValue(d) == Deliverable_get_spent_hours(d)

\* Contract.get_spent_hours, up to the loop: self.deliverables.all() is
\* fetched and total starts at 0; began counts the inserts so far
RollupReadBegin(u, c) ==
    /\ HasPermission(ViewPermissionClass("contracts", "GET"), u, "GET", <<>>)
    /\ c \in DOMAIN contracts
    /\ Len(inflight) < MaxInflight
    /\ inflight' = Append(inflight,
            [user |-> u, contract |-> c,
             todo |-> Referring(deliverables, "contract", c),
             total |-> 0, began |-> nextEntryId,
             base |-> Contract_get_spent_hours(c)])
    /\ Unchanged
    /\ UNCHANGED last

\* one iteration of the loop; the model fixes no ordering of the queryset
RollupReadStep(i) ==
    /\ i \in 1..Len(inflight)
    /\ \E d \in inflight[i].todo :
        inflight' = [inflight EXCEPT ![i].todo = @ \ {d},
                                     ![i].total = @ + DeliverableReadValue(d)]
    /\ Unchanged
    /\ UNCHANGED last

\* return total: the response carries the value and, for the comparison,
\* the contract's total at the beginning and the inserts counted then
RollupReadFinish(i) ==
    /\ i \in 1..Len(inflight)
    /\ inflight[i].todo = {}
    /\ inflight' = SubSeq(inflight, 1, i - 1) \o SubSeq(inflight, i + 1, Len(inflight))
    /\ last' = Response("rollup", inflight[i].user, HTTP_200_OK, {}, MsgNone,
                        inflight[i].contract,
                        Request("contracts",
                                ("spent_hours" :> inflight[i].total)
                                @@ ("base" :> inflight[i].base)
                                @@ ("began" :> inflight[i].began)))
    /\ Unchanged

\* a manager reads the rollup of contract 1 while time entries are logged
\* on its two deliverables
NextRead ==
    \/ RollupReadBegin(RollupUser, 1)
    \/ \E i \in 1..MaxInflight : RollupReadStep(i)
    \/ \E i \in 1..MaxInflight : RollupReadFinish(i)
    \/ \E p \in RollupEntryPayloads : TimeEntryCreate(RollupUser, p)

SpecRead == InitRollup /\ [][NextRead]_vars

\* ================================================================ claims
\* facts about a request, stated on the recorded request itself
IsTimeEntryCreate(r) == r.op = "te_create"

IsTimeEntryEdit(r) == r.op \in {"te_update", "te_partial_update", "te_destroy"}

RawSource(r) == Get(r.req, "external_source", Blank)

RawExternalId(r) == Get(r.req, "external_id", Blank)

HasProfile(u) == \E s \in DOMAIN staff : staff[s].user = u

RequesterId(r) == CHOOSE s \in DOMAIN staff : staff[s].user = r.user

RequesterRole(r) ==
    IF HasProfile(r.user) THEN staff[RequesterId(r)].role ELSE NoRole

SamePair(row, r) ==
    row.external_source = RawSource(r) /\ row.external_id = RawExternalId(r)

\* C1: a create admitted by the access policy whose payload carries both
\* external_source and external_id non-empty, while an entry with exactly
\* that pair is stored, answers 200 (not 201) with that entry, inserts no
\* row and changes no row; exactly one entry carries the pair afterwards.
C1_IdempotentReplay ==
    [][ ( /\ IsTimeEntryCreate(last')
          /\ HasProfile(last'.user)
          /\ RawSource(last') /= Blank /\ RawExternalId(last') /= Blank
          /\ \E e \in DOMAIN entries : SamePair(entries[e], last') )
        => ( /\ last'.status = HTTP_200_OK
             /\ last'.status /= HTTP_201_CREATED
             /\ last'.id \in DOMAIN entries
             /\ SamePair(entries[last'.id], last')
             /\ entries' = entries
             /\ nextEntryId' = nextEntryId
             /\ Cardinality({e \in DOMAIN entries' : SamePair(entries'[e], last')}) = 1 )
      ]_vars

\* C1 witness: a replay answered 200 whose payload differs from the stored
\* entry in hours or in staff.
C1_Witness ==
    /\ IsTimeEntryCreate(last)
    /\ last.status = HTTP_200_OK
    /\ last.id \in DOMAIN entries
    /\ \/ last.req["hours"] /= entries[last.id].hours
       \/ (Has(last.req, "staff") /\ last.req["staff"] /= entries[last.id].staff)

\* C2: in every reachable state, whatever the order in which concurrent
\* creates and updates reach the storage, no two stored entries carry the
\* same (external_source, external_id) pair with both halves non-empty.
C2_UniqueExternalKey ==
    \A e1 \in DOMAIN entries : \A e2 \in DOMAIN entries :
        ( /\ e1 /= e2
          /\ Truthy(entries[e1].external_source)
          /\ Truthy(entries[e1].external_id) )
        => ~( /\ entries[e1].external_source = entries[e2].external_source
              /\ entries[e1].external_id = entries[e2].external_id )

\* C2 witness: a create that would have been a replay had it run alone
\* lost the race: its lookup found nothing, another request stored the
\* pair, and its insert was refused by the storage.
C2_Witness ==
    /\ IsTimeEntryCreate(last)
    /\ last.status = HTTP_500_SERVER_ERROR
    /\ RawSource(last) = <<"a">>
    /\ RawExternalId(last) = <<"x">>
    /\ \E e \in DOMAIN entries : SamePair(entries[e], last)

C4_Original ==
    ( /\ IsTimeEntryCreate(last)
      /\ RequesterRole(last) = "staff"
      /\ last.status \in {HTTP_200_OK, HTTP_201_CREATED} )
    => ( /\ last.id \in DOMAIN entries
         /\ entries[last.id].staff = RequesterId(last) )

\* C4 amended: every create by a role=staff requester that inserts a row
\* (201) returns an entry attributed to the requester, whatever staff value
\* the payload carried.
C4_CreatedEntryIsOwn ==
    ( /\ IsTimeEntryCreate(last)
      /\ RequesterRole(last) = "staff"
      /\ last.status = HTTP_201_CREATED )
    => ( /\ last.id \in DOMAIN entries
         /\ entries[last.id].staff = RequesterId(last) )

\* C4 witness: a role=staff requester created an entry while the payload
\* named another staff member.
C4_Witness ==
    /\ IsTimeEntryCreate(last)
    /\ RequesterRole(last) = "staff"
    /\ last.status = HTTP_201_CREATED
    /\ Has(last.req, "staff")
    /\ last.req["staff"] /= RequesterId(last)

IsTaskCreate(r) == r.op = "task_create"

IsTaskUpdate(r) == r.op \in {"task_update", "task_partial_update"}

IsTaskEdit(r) == IsTaskUpdate(r) \/ r.op = "task_destroy"

\* the assignee is left out, or sent as null or as the empty string
Unassigning(req) ==
    ~Has(req, "assignee") \/ req["assignee"] \in {JNull, JStr(<<>>)}

\* the ways a request body spells the staff id n (0 < n < 10): the number,
\* its decimal string, a float between n and n + 1, and true for 1
Spellings(n) ==
    {JInt(n), JStr(<<DigitChars[n + 1]>>)}
    \cup {JFloat(n, d) : d \in 0..9}
    \cup (IF n = 1 THEN {JBool(TRUE)} ELSE {})

\* values that compare equal to 0
ZeroLike == {JInt(0), JFloat(0, 0), JBool(FALSE)}

\* C5 as stated: a Task create by a role=staff requester is authorized
\* (not answered 403) exactly when the assignee is absent, null, empty or
\* the requester's own id (as a number or its decimal string); with any
\* other value it is refused and no Task is created.
C5_Original ==
    [][ (IsTaskCreate(last') /\ RequesterRole(last') = "staff")
        => IF \/ Unassigning(last'.req)
              \/ last'.req["assignee"] \in
                    {JInt(RequesterId(last')),
                     JStr(<<DigitChars[RequesterId(last') + 1]>>)}
           THEN last'.status /= HTTP_403_FORBIDDEN
           ELSE last'.status = HTTP_403_FORBIDDEN /\ tasks' = tasks
      ]_vars

\* C5 amended: a Task create by a role=staff requester is authorized (not
\* answered 403) exactly when the assignee is absent, null, empty, equal
\* to 0, or a value that int() converts to the requester's own id; every
\* Task such a requester creates is unassigned or assigned to the
\* requester, and a request that is not answered 201 creates nothing.  A
\* manager or an admin is never answered 403 and creates the Task with any
\* existing staff id as assignee.
C5_StaffCreatesOwnOrUnassigned ==
    [][ IsTaskCreate(last')
        => /\ RequesterRole(last') = "staff"
              => /\ (last'.status /= HTTP_403_FORBIDDEN)
                        <=> ( \/ Unassigning(last'.req)
                              \/ last'.req["assignee"] \in ZeroLike
                              \/ last'.req["assignee"] \in Spellings(RequesterId(last')) )
                 /\ last'.status = HTTP_403_FORBIDDEN => last'.detail = MsgCreateTask
                 /\ last'.status = HTTP_201_CREATED
                        => tasks'[last'.id].assignee \in {Null, RequesterId(last')}
           /\ RequesterRole(last') \in {"manager", "admin"}
              => /\ last'.status /= HTTP_403_FORBIDDEN
                 /\ \A n \in DOMAIN staff :
                        (Has(last'.req, "assignee") /\ last'.req["assignee"] = JInt(n))
                        => /\ last'.status = HTTP_201_CREATED
                           /\ tasks'[last'.id].assignee = n
           /\ IF last'.status = HTTP_201_CREATED
              THEN /\ last'.id \notin DOMAIN tasks
                   /\ DOMAIN tasks' = DOMAIN tasks \cup {last'.id}
                   /\ \A t \in DOMAIN tasks : tasks'[t] = tasks[t]
              ELSE tasks' = tasks
      ]_vars

\* C5 witness: a role=staff requester who already holds a task of their own
\* was refused a create that named another staff member.
C5_Witness ==
    /\ IsTaskCreate(last)
    /\ RequesterRole(last) = "staff"
    /\ last.status = HTTP_403_FORBIDDEN
    /\ last.detail = MsgCreateTask
    /\ last.req["assignee"] = JInt(2)
    /\ \E t \in DOMAIN tasks : tasks[t].assignee = RequesterId(last)

\* C6: an update or delete of a stored Task by a role=staff requester who
\* is not its current assignee (the task is unassigned or assigned to
\* someone else) is refused and changes nothing; an update by a role=staff
\* requester that names another staff member as assignee is refused and
\* changes nothing; so whenever a role=staff request changes the tasks, it
\* changes only the one task that was assigned to the requester and leaves
\* it, if it still exists, assigned to the requester or unassigned.
C6_StaffEditsOwnTasksOnly ==
    [][ (IsTaskEdit(last') /\ RequesterRole(last') = "staff")
        => /\ (last'.id \in DOMAIN tasks
                /\ tasks[last'.id].assignee /= RequesterId(last'))
              => /\ last'.status = HTTP_403_FORBIDDEN
                 /\ tasks' = tasks
           /\ ( /\ IsTaskUpdate(last')
                /\ Has(last'.req, "assignee")
                /\ \E n \in DOMAIN staff \ {RequesterId(last')} :
                        last'.req["assignee"] = JInt(n) )
              => /\ last'.status \in {HTTP_403_FORBIDDEN, HTTP_404_NOT_FOUND}
                 /\ tasks' = tasks
           /\ tasks' /= tasks
              => /\ last'.id \in DOMAIN tasks
                 /\ tasks[last'.id].assignee = RequesterId(last')
                 /\ \A t \in DOMAIN tasks \ {last'.id} :
                        t \in DOMAIN tasks' /\ tasks'[t] = tasks[t]
                 /\ last'.id \in DOMAIN tasks'
                        => tasks'[last'.id].assignee \in {Null, RequesterId(last')}
      ]_vars

\* C6 witness: a role=staff requester tried to hand their own task to
\* another staff member and was refused.
C6_Witness ==
    /\ IsTaskUpdate(last)
    /\ RequesterRole(last) = "staff"
    /\ last.status = HTTP_403_FORBIDDEN
    /\ last.detail = MsgReassign
    /\ last.id \in DOMAIN tasks
    /\ tasks[last.id].assignee = RequesterId(last)

IsAccessWrite(r) == r.op \in {"create", "partial_update", "destroy"}

IsAccessRequest(r) == IsAccessWrite(r) \/ r.op \in {"list", "retrieve"}

\* the roles the access table lets write a resource
WriterRoles(res) == IF res = "staff" THEN {"admin"} ELSE {"manager", "admin"}

StaffRolesChanged ==
    \/ DOMAIN staff' /= DOMAIN staff
    \/ \E x \in DOMAIN staff : staff'[x].role /= staff[x].role

\* C7: a create, update or delete on Contract, Deliverable,
\* DeliverableAssignment or DeliverableStatusUpdate is authorized (not
\* answered 403) exactly when the requester's role is manager or admin,
\* and on Staff exactly when it is admin; a request that is refused
\* changes no table; the set of Staff rows and their roles change only in
\* a Staff write by an admin.
C7_RoleGuardedWrites ==
    [][ IsAccessRequest(last')
        => /\ IsAccessWrite(last')
              => /\ (last'.status /= HTTP_403_FORBIDDEN)
                        <=> (RequesterRole(last') \in WriterRoles(last'.req.res))
                 /\ last'.status = HTTP_403_FORBIDDEN
                        => UNCHANGED <<staff, contracts, deliverables,
                                       assignments, statusUpdates>>
           /\ StaffRolesChanged
              => /\ IsAccessWrite(last')
                 /\ last'.req.res = "staff"
                 /\ RequesterRole(last') = "admin"
           /\ <<contracts, deliverables, assignments, statusUpdates>>'
                    /= <<contracts, deliverables, assignments, statusUpdates>>
              => /\ IsAccessWrite(last')
                 /\ RequesterRole(last') \in {"manager", "admin"}
      ]_vars

\* C7 witness: a manager who had already created a Contract was refused a
\* write on Staff.
C7_Witness ==
    /\ IsAccessWrite(last)
    /\ last.req.res = "staff"
    /\ RequesterRole(last) = "manager"
    /\ last.status = HTTP_403_FORBIDDEN
    /\ Cardinality(DOMAIN contracts) = 2

\* C8 as stated: every request of an authenticated user with no linked
\* Staff profile, safe read or write, is answered 403 carrying the
\* "not linked to a Staff profile" message.
C8_NoProfileRejected ==
    [][ (IsAccessRequest(last') /\ ~HasProfile(last'.user))
        => /\ last'.status = HTTP_403_FORBIDDEN
           /\ last'.detail = MsgNoProfile
      ]_vars

\* the half of the pair that is missing when exactly one half is non-empty
MissingHalf(source, external_id) ==
    IF source /= Blank THEN "external_id" ELSE "external_source"

ExactlyOne(source, external_id) == (source /= Blank) /= (external_id /= Blank)

\* str.strip(), stated on the values the payloads use
Stripped(s) == SelectSeq(s, LAMBDA c : c /= " ")

OtherFieldsValid(r) ==
    /\ Has(r.req, "deliverable") /\ r.req["deliverable"] \in DOMAIN deliverables
    /\ Has(r.req, "hours") /\ r.req["hours"] >= 1
    /\ Has(r.req, "staff") => r.req["staff"] \in DOMAIN staff

\* C9 as stated: a create admitted by the access policy whose payload has
\* exactly one of external_source / external_id non-empty is answered 400
\* with the missing field among the error keys, and stores nothing.
C9_Original ==
    [][ ( /\ IsTimeEntryCreate(last')
          /\ HasProfile(last'.user)
          /\ ExactlyOne(RawSource(last'), RawExternalId(last')) )
        => ( /\ last'.status = HTTP_400_BAD_REQUEST
             /\ MissingHalf(RawSource(last'), RawExternalId(last')) \in last'.errors
             /\ entries' = entries )
      ]_vars

\* C9 amended: a create whose payload, after whitespace is stripped, has
\* exactly one of the pair non-empty is rejected (400, or 403 for a
\* requester without a profile) and stores nothing; when the requester has
\* a profile and the other fields are valid the error is keyed on exactly
\* the missing field.
C9_HalfPairRejected ==
    [][ ( /\ IsTimeEntryCreate(last')
          /\ ExactlyOne(Stripped(RawSource(last')), Stripped(RawExternalId(last'))) )
        => ( /\ entries' = entries
             /\ nextEntryId' = nextEntryId
             /\ last'.status =
                  IF HasProfile(last'.user) THEN HTTP_400_BAD_REQUEST
                  ELSE HTTP_403_FORBIDDEN
             /\ (HasProfile(last'.user) /\ OtherFieldsValid(last'))
                  => last'.errors =
                        {MissingHalf(Stripped(RawSource(last')),
                                     Stripped(RawExternalId(last')))} )
      ]_vars

\* C9 witness: a source without an id was answered 400 keyed on external_id.
C9_Witness ==
    /\ IsTimeEntryCreate(last)
    /\ RawSource(last) = <<"a">>
    /\ RawExternalId(last) = Blank
    /\ last.status = HTTP_400_BAD_REQUEST
    /\ last.errors = {"external_id"}

C11_PairBothOrNeither ==
    \A e \in DOMAIN entries :
        Truthy(entries[e].external_source) <=> Truthy(entries[e].external_id)

\* C12: a create that passed the idempotency lookup and reaches its insert
\* after a concurrent request stored the same non-empty pair inserts no
\* row, leaves the winner's row untouched, and is answered with a
\* client error (4xx), not with a server failure.
C12_RaceLoserConflict ==
    [][ ( /\ Len(inflight') < Len(inflight)
          /\ IsTimeEntryCreate(last')
          /\ Truthy(RawSource(last')) /\ Truthy(RawExternalId(last'))
          /\ \E e \in DOMAIN entries : SamePair(entries[e], last') )
        => ( /\ entries' = entries
             /\ last'.status >= HTTP_400_BAD_REQUEST
             /\ last'.status < HTTP_500_SERVER_ERROR )
      ]_vars

\* the request is a create by a requester with a Staff profile that
\* carries an hours value
IsHoursCreate(r) ==
    IsTimeEntryCreate(r) /\ HasProfile(r.user) /\ Has(r.req, "hours")

\* the idempotency lookup of the request finds a stored entry
IsReplay(r) ==
    /\ Truthy(RawSource(r)) /\ Truthy(RawExternalId(r))
    /\ \E e \in DOMAIN entries : SamePair(entries[e], r)

\* the fields other than hours are valid and the pair is absent or whole
HoursAside(r) ==
    /\ Has(r.req, "deliverable") /\ r.req["deliverable"] \in DOMAIN deliverables
    /\ Has(r.req, "staff") /\ r.req["staff"] \in DOMAIN staff
    /\ Truthy(RawSource(r)) <=> Truthy(RawExternalId(r))
    /\ Strip(RawSource(r)) = RawSource(r)
    /\ Strip(RawExternalId(r)) = RawExternalId(r)

\* a create with hours = 0.01 is accepted: a new row with those hours, or
\* the stored entry of its pair
HoursAccepted ==
    IF IsReplay(last')
    THEN last'.status = HTTP_200_OK /\ entries' = entries
    ELSE /\ last'.status = HTTP_201_CREATED
         /\ last'.id \notin DOMAIN entries
         /\ entries'[last'.id].hours = MinHours

\* a create is answered 400 with an error on hours and writes nothing
HoursRejected ==
    /\ last'.status = HTTP_400_BAD_REQUEST
    /\ "hours" \in last'.errors
    /\ entries' = entries

\* C13 as stated: every create with hours <= 0 is answered 400 with an
\* error on the hours field and writes nothing; a create with hours = 0.01
\* is accepted; no stored entry ever has hours <= 0.
C13_Original ==
    [][ /\ \A e \in DOMAIN entries' : entries'[e].hours > 0
        /\ (IsHoursCreate(last') /\ last'.req["hours"] <= 0) => HoursRejected
        /\ ( /\ IsHoursCreate(last')
             /\ last'.req["hours"] = MinHours
             /\ HoursAside(last') ) => HoursAccepted
      ]_vars

\* C13: every create with hours <= 0 whose idempotency lookup finds no
\* stored entry is answered 400 with an error on the hours field and
\* writes nothing; one whose lookup finds an entry is answered 200 with
\* that entry and writes nothing; a create with hours = 0.01 is accepted;
\* no entry stored by a create, an update or a partial update ever has
\* hours <= 0.
C13_PositiveHours ==
    [][ /\ \A e \in DOMAIN entries' : entries'[e].hours > 0
        /\ ( /\ IsHoursCreate(last')
             /\ last'.req["hours"] <= 0
             /\ ~IsReplay(last') ) => HoursRejected
        /\ ( /\ IsHoursCreate(last')
             /\ last'.req["hours"] <= 0
             /\ IsReplay(last') )
           => ( /\ last'.status = HTTP_200_OK
                /\ last'.id \in DOMAIN entries
                /\ SamePair(entries[last'.id], last')
                /\ entries' = entries )
        /\ ( /\ IsHoursCreate(last')
             /\ last'.req["hours"] = MinHours
             /\ HoursAside(last') ) => HoursAccepted
      ]_vars

\* C13 witness: a create with negative hours was answered 400 on hours
\* while an entry with hours = 0.01 is stored.
C13_Witness ==
    /\ IsTimeEntryCreate(last)
    /\ last.req["hours"] < 0
    /\ last.status = HTTP_400_BAD_REQUEST
    /\ "hours" \in last.errors
    /\ \E e \in DOMAIN entries : entries[e].hours = MinHours

\* the request is a create on the table, sent by a manager or an admin
IsPairCreate(r, res) ==
    /\ r.op = "create" /\ r.req.res = res
    /\ RequesterRole(r) \in {"manager", "admin"}

\* no two rows of the table agree on both fields
PairsDistinct(t, k1, k2) ==
    \A a, b \in DOMAIN t :
        (t[a][k1] = t[b][k1] /\ t[a][k2] = t[b][k2]) => a = b

\* C14: after any create, update or partial update no two assignments
\* share (deliverable, staff); a create whose pair a stored assignment
\* already has is answered 400 with a non-field validation error, and the
\* assignments are unchanged.
C14_UniqueAssignment ==
    [][ /\ PairsDistinct(assignments', "deliverable", "staff")
        /\ ( /\ IsPairCreate(last', "assignments")
             /\ \E a \in DOMAIN assignments :
                   /\ assignments[a].deliverable = last'.req.data["deliverable"]
                   /\ assignments[a].staff = last'.req.data["staff"] )
           => ( /\ last'.status = HTTP_400_BAD_REQUEST
                /\ "non_field_errors" \in last'.errors
                /\ assignments' = assignments )
      ]_vars

\* C14 witness: with two assignments stored, a create that repeats the
\* pair of one of them was answered 400.
C14_Witness ==
    /\ IsPairCreate(last, "assignments")
    /\ last.status = HTTP_400_BAD_REQUEST
    /\ last.errors = {"non_field_errors"}
    /\ Cardinality(DOMAIN assignments) = 2
    /\ \E a \in DOMAIN assignments :
          /\ assignments[a].deliverable = last.req.data["deliverable"]
          /\ assignments[a].staff = last.req.data["staff"]

\* C15: after any create, update or partial update no two status updates
\* share (deliverable, period_end); a create whose pair a stored status
\* update already has is answered 400 with a non-field validation error,
\* and the status updates are unchanged.
C15_UniqueStatusUpdate ==
    [][ /\ PairsDistinct(statusUpdates', "deliverable", "period_end")
        /\ ( /\ IsPairCreate(last', "statusUpdates")
             /\ \E s \in DOMAIN statusUpdates :
                   /\ statusUpdates[s].deliverable = last'.req.data["deliverable"]
                   /\ statusUpdates[s].period_end = last'.req.data["period_end"] )
           => ( /\ last'.status = HTTP_400_BAD_REQUEST
                /\ "non_field_errors" \in last'.errors
                /\ statusUpdates' = statusUpdates )
      ]_vars

\* C15 witness: with two status updates stored, a create that repeats the
\* period_end of one of them for the same deliverable was answered 400.
C15_Witness ==
    /\ IsPairCreate(last, "statusUpdates")
    /\ last.status = HTTP_400_BAD_REQUEST
    /\ last.errors = {"non_field_errors"}
    /\ Cardinality(DOMAIN statusUpdates) = 2
    /\ \E s \in DOMAIN statusUpdates :
          /\ statusUpdates[s].deliverable = last.req.data["deliverable"]
          /\ statusUpdates[s].period_end = last.req.data["period_end"]

\* the hours of the entries 1..n that belong to deliverable d
RECURSIVE HoursUpTo(_, _)
HoursUpTo(d, n) ==
    IF n = 0 THEN 0
    ELSE HoursUpTo(d, n - 1)
         + (IF n \in DOMAIN entries /\ entries[n].deliverable = d
            THEN entries[n].hours ELSE 0)

\* C16: in every state reached by creates, updates and deletes of its
\* child rows, a deliverable's variance_hours() is exactly spent_hours()
\* minus assigned_budget_hours(), spent_hours() is the sum of the hours of
\* its current time entries, and each total is 0 over no rows.
C16_VarianceIsSpentMinusAssigned ==
    \A d \in DOMAIN deliverables :
        /\ Deliverable_get_variance_hours(d) + Deliverable_get_assigned_budget_hours(d)
              = Deliverable_get_spent_hours(d)
        /\ Deliverable_get_spent_hours(d) = HoursUpTo(d, nextEntryId - 1)
        /\ (\A e \in DOMAIN entries : entries[e].deliverable /= d)
              => Deliverable_get_spent_hours(d) = 0
        /\ (\A t \in DOMAIN tasks : tasks[t].deliverable /= d)
              => Deliverable_get_assigned_budget_hours(d) = 0

\* C16 witness: after an entry was deleted, a deliverable with an entry
\* and a task has a variance other than zero while the other deliverable
\* has no rows left.
C16_Witness ==
    /\ last.op = "te_destroy" /\ last.status = HTTP_204_NO_CONTENT
    /\ \E d \in DOMAIN deliverables :
          /\ Referring(entries, "deliverable", d) /= {}
          /\ Referring(tasks, "deliverable", d) /= {}
          /\ Deliverable_get_variance_hours(d) > 0
    /\ \E d \in DOMAIN deliverables :
          /\ Referring(entries, "deliverable", d) = {}
          /\ Deliverable_get_spent_hours(d) = 0

\* the deliverable rollups of the deliverables 1..n that belong to contract c
RECURSIVE AssignedUpTo(_, _)
AssignedUpTo(c, n) ==
    IF n = 0 THEN 0
    ELSE AssignedUpTo(c, n - 1)
         + (IF n \in DOMAIN deliverables /\ deliverables[n].contract = c
            THEN Deliverable_get_assigned_budget_hours(n) ELSE 0)

RECURSIVE SpentUpTo(_, _)
SpentUpTo(c, n) ==
    IF n = 0 THEN 0
    ELSE SpentUpTo(c, n - 1)
         + (IF n \in DOMAIN deliverables /\ deliverables[n].contract = c
            THEN Deliverable_get_spent_hours(n) ELSE 0)

\* what C19 says of one state
ContractRollupsAreSums ==
    \A c \in DOMAIN contracts :
        /\ Contract_get_assigned_budget_hours(c)
              = AssignedUpTo(c, nextId["deliverables"] - 1)
        /\ Contract_get_spent_hours(c) = SpentUpTo(c, nextId["deliverables"] - 1)
        /\ (\A d \in DOMAIN deliverables : deliverables[d].contract /= c)
              => /\ Contract_get_assigned_budget_hours(c) = 0
                 /\ Contract_get_spent_hours(c) = 0
        /\ Contract_is_over_expected(c)
              <=> (SpentUpTo(c, nextId["deliverables"] - 1)
                     > AssignedUpTo(c, nextId["deliverables"] - 1))

\* C19: a contract's assigned_budget_hours() and spent_hours() are the
\* sums of the deliverable rollups over its current deliverables (0 when
\* it has none), is_over_expected() holds exactly when the spent total is
\* greater than the assigned total, and a change of the contract's own
\* budget_hours changes none of the three.
C19_ContractRollups ==
    /\ []ContractRollupsAreSums
    /\ [][ (last'.op = "partial_update" /\ last'.req.res = "contracts")
           => \A c \in DOMAIN contracts :
                 /\ Contract_is_over_expected(c)' = Contract_is_over_expected(c)
                 /\ Contract_get_spent_hours(c)' = Contract_get_spent_hours(c)
                 /\ Contract_get_assigned_budget_hours(c)'
                        = Contract_get_assigned_budget_hours(c)
          ]_vars

\* C19 witness: the contract's budget_hours was just changed; both of its
\* deliverables contribute; spent exceeds the own budget but not the
\* assigned total; the contract without deliverables rolls up to zero.
C19_Witness ==
    /\ last.op = "partial_update" /\ last.req.res = "contracts"
    /\ last.status = HTTP_200_OK
    /\ contracts[1].budget_hours = 1
    /\ Cardinality(Referring(deliverables, "contract", 1)) = 2
    /\ \A d \in Referring(deliverables, "contract", 1) :
          Deliverable_get_spent_hours(d) > 0 /\ Deliverable_get_assigned_budget_hours(d) > 0
    /\ Contract_is_over_budget(1)
    /\ ~Contract_is_over_expected(1)
    /\ Contract_get_spent_hours(2) = 0

\* the budget_hours of the assignments 1..n that belong to deliverable d
RECURSIVE AssignmentBudgetUpTo(_, _)
AssignmentBudgetUpTo(d, n) ==
    IF n = 0 THEN 0
    ELSE AssignmentBudgetUpTo(d, n - 1)
         + (IF n \in DOMAIN assignments /\ assignments[n].deliverable = d
            THEN assignments[n].budget_hours ELSE 0)

\* C20: a deliverable's assigned_budget_hours() is the sum of
\* budget_hours over its assignments (0 when it has none), and a
\* contract's assigned_budget_hours() is the sum of that value over its
\* deliverables.
C20_AssignedFromAssignments ==
    /\ \A d \in DOMAIN deliverables :
          Deliverable_get_assigned_budget_hours(d)
              = AssignmentBudgetUpTo(d, nextId["assignments"] - 1)
    /\ \A c \in DOMAIN contracts :
          Contract_get_assigned_budget_hours(c)
              = SumField(assignments,
                         {a \in DOMAIN assignments :
                             assignments[a].deliverable
                                 \in Referring(deliverables, "contract", c)},
                         "budget_hours")

\* w is the least whole number, at least 1, of weeks that cover the days
\* start..end
IsWeeks(w, start, end) ==
    /\ w >= 1
    /\ 7 * w >= end - start + 1
    /\ w = 1 \/ 7 * (w - 1) < end - start + 1

\* the start and end dates the week counts of a row are computed from
WeeksStart(res, id) ==
    IF res = "contracts" THEN contracts[id].start_date
    ELSE IF deliverables[id].start_date = Null
         THEN contracts[deliverables[id].contract].start_date
         ELSE deliverables[id].start_date

WeeksEnd(res, id) ==
    IF res = "contracts" THEN contracts[id].end_date
    ELSE IF deliverables[id].due_date = Null
         THEN contracts[deliverables[id].contract].end_date
         ELSE deliverables[id].due_date

IsWeeksRead(r) ==
    r.op = "retrieve" /\ r.status = HTTP_200_OK /\ Has(r.req.data, "today")

\* C17: for every contract and deliverable and every value of today,
\* planned_weeks is max(1, ceil(((end - start).days + 1) / 7)) and
\* elapsed_weeks is 1 when today < start and otherwise
\* max(1, ceil(((min(today, end) - start).days + 1) / 7)), where a
\* deliverable's start and end are its own start_date and due_date, each
\* replaced by the contract's date when null; both are at least 1, and
\* exactly 1 when start = end.
C17_WeeksAtLeastOne ==
    [][ IsWeeksRead(last')
        => LET start == WeeksStart(last'.req.res, last'.id)
               end == WeeksEnd(last'.req.res, last'.id)
               today == last'.req.data["today"]
               planned == last'.req.data["planned_weeks"]
               elapsed == last'.req.data["elapsed_weeks"]
           IN /\ IsWeeks(planned, start, end)
              /\ today < start => elapsed = 1
              /\ today >= start
                 => IsWeeks(elapsed, start, IF today <= end THEN today ELSE end)
              /\ planned >= 1 /\ elapsed >= 1
              /\ start = end => (planned = 1 /\ elapsed = 1)
      ]_vars

\* C17 witness: a deliverable without a start_date of its own and with a
\* due_date of its own was read after its end; its nine days from the
\* contract's start to its own due date count as two weeks.
C17_Witness ==
    /\ IsWeeksRead(last)
    /\ last.req.res = "deliverables"
    /\ deliverables[last.id].start_date = Null
    /\ deliverables[last.id].due_date = 9
    /\ contracts[1].start_date = 1
    /\ contracts[1].end_date /= 9
    /\ last.req.data["today"] > 9
    /\ last.req.data["planned_weeks"] = 2
    /\ last.req.data["elapsed_weeks"] = 2

\* day 1 is a Monday, so the Sundays are the multiples of 7
IsSunday(d) == d % 7 = 0

\* d itself when d is a Sunday, otherwise the first Sunday after d
WeekEnding(d) == CHOOSE s \in d..(d + 6) : IsSunday(s)

IsBurnRead(r) ==
    r.op = "burn" /\ r.status = HTTP_200_OK /\ Has(r.req.data, "buckets")

\* C18: the buckets of a burn report over start..end are, ascending and 7
\* days apart, exactly the Sundays s with week_ending(start) <= s <= end,
\* or the single bucket week_ending(start) when there is no such Sunday;
\* the list is never empty, and a Monday-to-Sunday range of 28 days has 4
\* buckets.
C18_WeeklyBuckets ==
    [][ IsBurnRead(last')
        => LET start == contracts[last'.id].start_date
               end == contracts[last'.id].end_date
               buckets == last'.req.data["buckets"]
               sundays == {s \in WeekEnding(start)..end : IsSunday(s)}
           IN /\ Len(buckets) >= 1
              /\ buckets[1] = WeekEnding(start)
              /\ \A i \in 1..(Len(buckets) - 1) : buckets[i + 1] = buckets[i] + 7
              /\ sundays /= {} => {buckets[i] : i \in 1..Len(buckets)} = sundays
              /\ sundays = {} => buckets = <<WeekEnding(start)>>
              /\ get_week_ending_date(start) = WeekEnding(start)
              /\ Len(generate_weekly_buckets(1, 28)) = 4
      ]_vars

\* C18 witness: a contract from a Monday to the Tuesday after it has the
\* single bucket of the Sunday that follows its end.
C18_Witness ==
    /\ IsBurnRead(last)
    /\ contracts[last.id].start_date = 1
    /\ contracts[last.id].end_date = 2
    /\ last.req.data["buckets"] = <<7>>

\* the assignments of deliverable d that are marked as lead
LeadsOf(d) ==
    {a \in DOMAIN assignments :
        assignments[a].deliverable = d /\ assignments[a].is_lead = TRUE}

\* C21: after any sequence of assignment creates, updates and deletes,
\* is_missing_lead() of a deliverable is true exactly when the number of
\* its current assignments with is_lead = true is zero; a deliverable
\* without assignments is missing its lead.
C21_MissingLead ==
    \A d \in DOMAIN deliverables :
        /\ Deliverable_is_missing_lead(d) <=> Cardinality(LeadsOf(d)) = 0
        /\ (\A a \in DOMAIN assignments : assignments[a].deliverable /= d)
              => Deliverable_is_missing_lead(d)

\* C21 witness: the only assignment of the deliverable was just deleted
\* and the deliverable is missing its lead.
C21_Witness ==
    /\ last.op = "destroy" /\ last.req.res = "assignments"
    /\ last.status = HTTP_204_NO_CONTENT
    /\ Referring(assignments, "deliverable", 1) = {}
    /\ Deliverable_is_missing_lead(1)

\* C22: is_missing_budget() of a deliverable is true exactly when its
\* assigned hours total is 0 and it has at least one task; a deliverable
\* without tasks is never flagged and one whose sized work sums to more
\* than 0 is never flagged.
C22_MissingBudget ==
    \A d \in DOMAIN deliverables :
        Deliverable_is_missing_budget(d)
            <=> /\ Deliverable_get_assigned_budget_hours(d) = 0
                /\ \E t \in DOMAIN tasks : tasks[t].deliverable = d

\* C23: for a deliverable and for a contract alike, the remaining budget
\* hours are the own budget_hours minus the assigned budget hours and the
\* unspent budget hours are the own budget_hours minus the spent hours, so
\* the two differ whenever assigned and spent differ.
C23_RemainingAndUnspent ==
    /\ \A d \in DOMAIN deliverables :
        /\ Deliverable_get_remaining_budget_hours(d)
              = deliverables[d].budget_hours - Deliverable_get_assigned_budget_hours(d)
        /\ Deliverable_get_unspent_budget_hours(d)
              = deliverables[d].budget_hours - Deliverable_get_spent_hours(d)
    /\ \A c \in DOMAIN contracts :
        /\ Contract_get_remaining_budget_hours(c)
              = contracts[c].budget_hours - Contract_get_assigned_budget_hours(c)
        /\ Contract_get_unspent_budget_hours(c)
              = contracts[c].budget_hours - Contract_get_spent_hours(c)
        /\ Contract_get_assigned_budget_hours(c) /= Contract_get_spent_hours(c)
              => Contract_get_remaining_budget_hours(c)
                    /= Contract_get_unspent_budget_hours(c)

\* every reference of every stored row names a stored parent, or is null
\* where the column allows it
NoDanglingReference ==
    /\ \A d \in DOMAIN deliverables : deliverables[d].contract \in DOMAIN contracts
    /\ \A t \in DOMAIN tasks :
        /\ tasks[t].deliverable \in DOMAIN deliverables
        /\ tasks[t].assignee \in DOMAIN staff \cup {Null}
    /\ \A a \in DOMAIN assignments :
        /\ assignments[a].deliverable \in DOMAIN deliverables
        /\ assignments[a].staff \in DOMAIN staff
    /\ \A e \in DOMAIN entries :
        /\ entries[e].deliverable \in DOMAIN deliverables
        /\ entries[e].staff \in DOMAIN staff
    /\ \A o \in DOMAIN statusUpdates :
        /\ statusUpdates[o].deliverable \in DOMAIN deliverables
        /\ statusUpdates[o].created_by \in DOMAIN staff \cup {Null}

IsDestroy(res) == last'.op = "destroy" /\ last'.req.res = res

\* C24: after any sequence of creates and deletes no stored row references
\* a parent that is gone: the delete of a contract that still has
\* deliverables is refused and changes nothing, the delete of a deliverable
\* removes its tasks, assignments, time entries and status updates, and the
\* delete of a staff member keeps the tasks that named them, with a null
\* assignee.
C24_NoOrphans ==
    /\ []NoDanglingReference
    /\ [][/\ (IsDestroy("contracts") /\ last'.id \in DOMAIN contracts
                 /\ Referring(deliverables, "contract", last'.id) /= {})
              => /\ last'.status /= HTTP_204_NO_CONTENT
                 /\ contracts' = contracts /\ deliverables' = deliverables
          /\ (IsDestroy("deliverables") /\ last'.status = HTTP_204_NO_CONTENT)
              => /\ last'.id \notin DOMAIN deliverables'
                 /\ Referring(tasks', "deliverable", last'.id) = {}
                 /\ Referring(assignments', "deliverable", last'.id) = {}
                 /\ Referring(entries', "deliverable", last'.id) = {}
                 /\ Referring(statusUpdates', "deliverable", last'.id) = {}
          /\ (IsDestroy("staff") /\ last'.status = HTTP_204_NO_CONTENT)
              => /\ DOMAIN tasks' = DOMAIN tasks
                 /\ \A t \in DOMAIN tasks :
                        tasks'[t] =
                            IF tasks[t].assignee = last'.id
                            THEN [tasks[t] EXCEPT !.assignee = Null]
                            ELSE tasks[t]
       ]_vars

\* C24 witness: the assignee of the stored task was just deleted; the task
\* is still there and has no assignee.
C24_Witness ==
    /\ last.op = "destroy" /\ last.req.res = "staff"
    /\ last.status = HTTP_204_NO_CONTENT /\ last.id = 2
    /\ 1 \in DOMAIN tasks /\ tasks[1].assignee = Null
    /\ 2 \notin DOMAIN staff

\* the last request wrote a contract whose end_date precedes its start_date
\* and passed the access policy
IsReversedContractWrite ==
    /\ last.op \in {"create", "update", "partial_update"}
    /\ last.req.res = "contracts"
    /\ Has(last.req.data, "start_date") /\ Has(last.req.data, "end_date")
    /\ last.req.data.end_date < last.req.data.start_date
    /\ last.status /= HTTP_403_FORBIDDEN

\* C25: a contract create or update with end_date before start_date is
\* rejected with the validation-error outcome of the application-level
\* checks (400 with field errors), never with a storage error, and every
\* stored contract has end_date >= start_date.
C25_DateOrderIsValidationError ==
    /\ \A c \in DOMAIN contracts : contracts[c].end_date >= contracts[c].start_date
    /\ IsReversedContractWrite
        => last.status = HTTP_400_BAD_REQUEST /\ last.errors /= {}

\* the stored rows of every table
stored == <<staff, contracts, deliverables, assignments, statusUpdates, entries, tasks>>

\* C26: a request rejected by the access policy (403) or by validation,
\* the idempotency pairing check included (400), leaves every stored row
\* of every table exactly as it was before the request.
C26_RejectedChangesNothing ==
    [][last'.status \in {HTTP_400_BAD_REQUEST, HTTP_403_FORBIDDEN}
          => UNCHANGED stored]_vars

\* C26 witness: a role=staff requester tried to hand their own task to
\* somebody else; perform_update refused and the task is still theirs.
C26_Witness ==
    /\ last.op = "task_partial_update"
    /\ last.status = HTTP_403_FORBIDDEN /\ last.detail = MsgReassign
    /\ last.id \in DOMAIN tasks
    /\ tasks[last.id].assignee = StaffOf(last.user)

\* C27: in a contract burn report every date of the contract's range
\* [start_date, end_date] lies in exactly one bucket window
\* [bucket_end - 6, bucket_end], so every time entry dated in the range is
\* counted in exactly one bucket.
C27_WindowsPartitionRange ==
    IsBurnRead(last) =>
        \A day \in contracts[last.id].start_date..contracts[last.id].end_date :
            Cardinality({i \in DOMAIN last.req.data.buckets :
                            day \in BucketWindow(last.req.data.buckets[i])}) = 1

\* staff < manager < admin
RoleRank(role) ==
    CASE role = "staff" -> 1 [] role = "manager" -> 2 [] role = "admin" -> 3 [] OTHER -> 0

\* request bodies the decision is compared on
AuthPayloads(res) ==
    CASE res = "tasks" -> FrameTaskCreates \cup FrameTaskPatches
      [] res = "entries" -> FrameEntryCreates \cup FrameEntryPatches
      [] OTHER -> {<<>>}

\* whatever a requester may do, every requester of a higher role may do
RoleMonotone ==
    \A lo \in Users, hi \in Users :
        (RoleRank(get_staff_role(lo)) >= 1
            /\ RoleRank(get_staff_role(lo)) <= RoleRank(get_staff_role(hi)))
        => \A res \in Resources \cup {"tasks", "entries"}, action \in ViewActions :
             \A id \in {1, 2}, p \in AuthPayloads(res) :
                Authorized(lo, res, action, id, p) => Authorized(hi, res, action, id, p)

\* C28: authorization is monotone in the role, staff < manager < admin: for
\* every resource, action, target record and payload, a request allowed to
\* a requester is allowed to every requester of a higher role. The access
\* decision compared is the one the handlers take: a task or time-entry
\* write on a stored target is answered 403 exactly when it is not allowed.
C28_RoleMonotone ==
    /\ []RoleMonotone
    /\ [][/\ (last'.op = "task_partial_update" /\ last'.id \in DOMAIN tasks)
              => (last'.status = HTTP_403_FORBIDDEN
                    <=> ~Authorized(last'.user, "tasks", "partial_update", last'.id, last'.req))
          /\ (last'.op = "te_partial_update" /\ last'.id \in DOMAIN entries)
              => (last'.status = HTTP_403_FORBIDDEN
                    <=> ~Authorized(last'.user, "entries", "partial_update", last'.id, <<>>))
          /\ last'.op = "task_create"
              => (last'.status = HTTP_403_FORBIDDEN
                    <=> ~Authorized(last'.user, "tasks", "create", NoId, last'.req))
       ]_vars

\* C28 witness: a role=staff requester just edited their own task, which a
\* manager and an admin may edit too, while a stored task of somebody else
\* is open to the manager only.
C28_Witness ==
    /\ last.op = "task_partial_update" /\ last.status = HTTP_200_OK
    /\ get_staff_role(last.user) = "staff"
    /\ Authorized("u3", "tasks", "partial_update", last.id, last.req)
    /\ Authorized("u4", "tasks", "partial_update", last.id, last.req)
    /\ \E t \in DOMAIN tasks :
        /\ ~Authorized(last.user, "tasks", "destroy", t, <<>>)
        /\ Authorized("u3", "tasks", "destroy", t, <<>>)

IsRollupRead(r) == r.op = "rollup" /\ r.status = HTTP_200_OK

\* the totals of contract c over the database states that ever existed when
\* entries are only inserted: the sums over the first n entries
RECURSIVE ContractSpentUpTo(_, _)
ContractSpentUpTo(c, n) ==
    IF n = 0 THEN 0
    ELSE ContractSpentUpTo(c, n - 1)
         + (IF n \in DOMAIN entries /\ deliverables[entries[n].deliverable].contract = c
            THEN entries[n].hours ELSE 0)

PastTotals(c) == {ContractSpentUpTo(c, n) : n \in 0..(nextEntryId - 1)}

\* C29: a contract-level rollup read is a sequence of separate
\* per-deliverable reads without a common snapshot. A read that no write
\* interleaves returns the total of the one state it ran in; a read that
\* inserts interleave returns a value between the total at its beginning
\* and the total at its end, which need not be the total of any
\* database state that existed (C29_Witness).
C29_ReadsAreNotSnapshots ==
    [][IsRollupRead(last') /\ last' /= last
          => /\ last'.req.data.base <= last'.req.data.spent_hours
             /\ last'.req.data.spent_hours <= Contract_get_spent_hours(last'.id)
             /\ last'.req.data.began = nextEntryId
                   => last'.req.data.spent_hours = Contract_get_spent_hours(last'.id)
      ]_vars

\* C29 witness: a completed rollup read returned a total that the contract
\* had in no database state, before, during or after the read.
C29_Witness ==
    /\ IsRollupRead(last)
    /\ last.req.data.spent_hours \notin PastTotals(last.id)

\* last' reads the week counts of the row last read, one day later
IsNextDayRead ==
    /\ IsWeeksRead(last) /\ IsWeeksRead(last')
    /\ last'.req.res = last.req.res /\ last'.id = last.id
    /\ last'.req.data["today"] = last.req.data["today"] + 1

\* C30: for a fixed contract or deliverable, as today advances one day at
\* a time, elapsed_weeks never decreases and never exceeds planned_weeks;
\* when end >= start it equals planned_weeks from today = end onward and
\* stays constant.
C30_ElapsedWeeksMonotone ==
    [][IsNextDayRead
        => LET start == WeeksStart(last.req.res, last.id)
               end == WeeksEnd(last.req.res, last.id)
               today == last.req.data["today"]
               planned == last.req.data["planned_weeks"]
           IN /\ last'.req.data["planned_weeks"] = planned
              /\ last.req.data["elapsed_weeks"] <= last'.req.data["elapsed_weeks"]
              /\ last.req.data["elapsed_weeks"] <= planned
              /\ last'.req.data["elapsed_weeks"] <= planned
              /\ (end >= start /\ today >= end)
                    => /\ last.req.data["elapsed_weeks"] = planned
                       /\ last'.req.data["elapsed_weeks"] = planned
      ]_vars

\* C30 witness: a contract of more than one week was read on its end date
\* and on the day after; elapsed_weeks had reached planned_weeks and stayed.
C30_Witness ==
    /\ IsWeeksRead(last)
    /\ last.req.res = "contracts"
    /\ last.req.data["today"] = contracts[last.id].end_date + 1
    /\ last.req.data["planned_weeks"] >= 2
    /\ last.req.data["elapsed_weeks"] = last.req.data["planned_weeks"]

====
